---- MODULE Spec2Model ----
(***************************************************************************)
(* Model of the SVG icon extraction engine of icon-vault-builder.          *)
(*                                                                         *)
(* The repository holds several generations of the extractor component.   *)
(* Each generation is a value of the variable `variant`:                   *)
(*   "IE"   src/src/components/IconExtractor.tsx                           *)
(*   "P7"   src/unnamed/part_007            (IconExtractor, older)         *)
(*   "ADV1" src/src/components/AdvancedIconExtractor.tsx  lines 1-386      *)
(*   "SM2"  src/src/components/SmartIconExtractor.tsx     lines 273-604    *)
(*   "P8"   src/unnamed/part_008            (SmartIconExtractor)           *)
(*   "P9"   src/unnamed/part_009            (SmartIconExtractor)           *)
(*                                                                         *)
(* A parsed document is a flattened tree: a sequence of element nodes in   *)
(* document order, each with the index of its parent (0 is the element    *)
(* the extractor takes as its svg element).                                *)
(***************************************************************************)
EXTENDS Integers, Sequences, FiniteSets, TLC

VARIABLES
    variant,          \* which extractor component is mounted
    files,            \* the `files` prop: the batch handed to processFiles
    i,                \* loop index of processFiles (1-based), next file to visit
    pc,               \* position of processFiles: "idle","loop","delay","done"
    allIcons,         \* processFiles' accumulator `allIcons`
    extractionStats,  \* the extractionStats state (one line per entry)
    isProcessing,     \* the isProcessing state
    now,              \* the value Date.now() returns
    runs,             \* per visited file: what extraction did (outcome, strategies run)
    delivered,        \* number of onIconsExtracted calls made
    mgr               \* SvgIconManager: its state and the processFiles calls it started

vars == <<variant, files, i, pc, allIcons, extractionStats, isProcessing, now,
          runs, delivered, mgr>>

-----------------------------------------------------------------------------
(* Bounds of the model *)

MaxItems == 2      \* top-level items in a generated document
MaxFiles == 2      \* files in a generated batch
SheetGroups == 20  \* groups of the generated icon sheet

-----------------------------------------------------------------------------
(* Small helpers *)

Range(s) == {s[k] : k \in 1..Len(s)}

\* the sum of a sequence of integers, by halves
RECURSIVE SumSeq(_)
SumSeq(s) ==
    IF Len(s) = 0 THEN 0
    ELSE IF Len(s) = 1 THEN s[1]
    ELSE SumSeq(SubSeq(s, 1, Len(s) \div 2)) + SumSeq(SubSeq(s, Len(s) \div 2 + 1, Len(s)))

\* the concatenation of a sequence of sequences, by halves
RECURSIVE Flatten(_)
Flatten(ss) ==
    IF Len(ss) = 0 THEN <<>>
    ELSE IF Len(ss) = 1 THEN ss[1]
    ELSE Flatten(SubSeq(ss, 1, Len(ss) \div 2)) \o Flatten(SubSeq(ss, Len(ss) \div 2 + 1, Len(ss)))

\* the members of a finite set of integers as an ascending sequence
SortedSeq(S) ==
    [k \in 1..Cardinality(S) |-> CHOOSE x \in S : Cardinality({y \in S : y < x}) = k - 1]

\* Array.prototype.slice(0, n)
Slice(s, n) == IF Len(s) <= n THEN s ELSE SubSeq(s, 1, n)

Max(a, b) == IF a >= b THEN a ELSE b
Abs(a) == IF a < 0 THEN -a ELSE a

-----------------------------------------------------------------------------
(* Strings.  Attribute values that the code inspects character by character *)
(* (element ids, class names) are sequences of one-character strings.       *)

NoStr == <<>>

WordChars == {"a", "b", "h", "A", "B", "H", "1"}

Upper(c) ==
    CASE c = "a" -> "A"
      [] c = "b" -> "B"
      [] c = "h" -> "H"
      [] OTHER   -> c

\* String.length of the attribute values the model uses for fill and stroke
ValLen(v) ==
    CASE v = ""             -> 0
      [] v = "none"         -> 4
      [] v = "red"          -> 3
      [] v = "currentColor" -> 12
      [] OTHER              -> 3

IsWordChar(c) == c \in WordChars

\* name: id.replace(/[_-]/g, ' ').replace(/\b\w/g, l => l.toUpperCase())
\* SmartIconExtractor.tsx:396, part_009:90, part_008:243
Humanize(s) ==
    LET spaced == [k \in 1..Len(s) |-> IF s[k] \in {"_", "-"} THEN " " ELSE s[k]]
    IN  [k \in 1..Len(s) |->
            IF IsWordChar(spaced[k]) /\ (k = 1 \/ ~IsWordChar(spaced[k-1]))
            THEN Upper(spaced[k]) ELSE spaced[k]]

\* fileName.replace('.svg', ''): the file names of the model hold ".svg" at most
\* once, as their extension
Stem(fileName) ==
    CASE fileName = "a.svg" -> "a"
      [] fileName = "b.svg" -> "b"
      [] OTHER              -> fileName

-----------------------------------------------------------------------------
(* Parsed documents *)

Primitives == {"path", "circle", "rect", "polygon", "polyline", "line", "ellipse"}

TagLen(tag) ==
    CASE tag = "g"        -> 1
      [] tag = "symbol"   -> 6
      [] tag = "defs"     -> 4
      [] tag = "use"      -> 3
      [] tag = "path"     -> 4
      [] tag = "circle"   -> 6
      [] tag = "rect"     -> 4
      [] tag = "polygon"  -> 7
      [] tag = "polyline" -> 8
      [] tag = "line"     -> 4
      [] tag = "ellipse"  -> 7
      [] tag = "clipPath" -> 8
      [] tag = "mask"     -> 4
      [] tag = "filter"   -> 6
      [] tag = "linearGradient" -> 14
      [] tag = "radialGradient" -> 14
      [] OTHER            -> 5

\* characters of the geometry attributes a primitive other than a path carries,
\* e.g. cx="5" cy="5" r="5" (with their leading spaces)
GeomLen(tag) == IF tag \in Primitives \ {"path"} THEN 20 ELSE 0

Node(tag, parent, id, cls, fill, stroke, d, href, box) ==
    [tag |-> tag, parent |-> parent, id |-> id, cls |-> cls, fill |-> fill,
     stroke |-> stroke, d |-> d, href |-> href, box |-> box]

NoBox == <<>>
\* getAttribute('d') of an element without the attribute
NoD == 0 - 1

\* a drawing primitive described by an item
Prim(it, parent, box) ==
    Node(it.ptag, parent, NoStr, NoStr, it.fill, it.stroke,
         IF it.ptag = "path" THEN it.d ELSE NoD, NoStr, box)

\* the nodes one top-level item of a document expands to; base is the number of
\* nodes before it, k its ordinal (items are laid out left to right, 40 apart)
ItemNodes(it, base, k) ==
    LET box == <<40 * (k - 1) + it.x, it.y, it.w, it.h>>
        plain(tag) == Node(tag, 0, it.id, it.cls, "", "", NoD, NoStr, box)
    IN  CASE it.kind = "symbol" ->
               IF it.ptag = "" THEN <<plain("symbol")>>
               ELSE <<plain("symbol"), Prim(it, base + 1, box)>>
          [] it.kind = "g" ->
               IF it.ptag = "" THEN <<plain("g")>>
               ELSE <<plain("g"), Prim(it, base + 1, box)>>
          [] it.kind = "defsg" ->
               <<Node("defs", 0, NoStr, NoStr, "", "", NoD, NoStr, NoBox),
                 Node("g", base + 1, it.id, it.cls, "", "", NoD, NoStr, box),
                 Prim(it, base + 2, box)>>
          [] it.kind = "use" ->
               <<Node("use", 0, NoStr, NoStr, "", "", NoD, it.href, box)>>
          [] OTHER -> <<Prim(it, 0, box)>>

\* the nodes of the items in document order: item k starts after the nodes of
\* the items before it
BuildNodes(items) ==
    LET count(k) == Len(ItemNodes(items[k], 0, 1))
        base(k)  == SumSeq([j \in 1..(k - 1) |-> count(j)])
    IN  Flatten([k \in 1..Len(items) |-> ItemNodes(items[k], base(k), k)])

\* root: "svg" the document element is <svg>; "nested" the document element is
\*   another element that holds the <svg>; "other" no <svg> element at all
\* vb: the viewBox attribute of the svg element as <<x, y, w, h>>, <<>> if absent
\* env: what getBBox does on the parsed elements: "layout" returns the box,
\*   "zero" returns an empty box, "throws" throws, "missing" is not a function
Doc(root, malformed, vb, style, env, items) ==
    [root |-> root, malformed |-> malformed, vb |-> vb, style |-> style,
     env |-> env, nodes |-> BuildNodes(items)]

N(doc) == Len(doc.nodes)

\* m is a descendant of n (n = 0: the svg element itself)
RECURSIVE IsDesc(_, _, _)
IsDesc(doc, m, n) ==
    IF n = 0 THEN TRUE
    ELSE LET p == doc.nodes[m].parent
         IN  p = n \/ (p # 0 /\ IsDesc(doc, p, n))

Children(doc, n) == SelectSeq([k \in 1..N(doc) |-> k], LAMBDA m : doc.nodes[m].parent = n)

\* element.querySelectorAll(tags): the matching descendants in document order
QSA(doc, n, tags) ==
    SelectSeq([k \in 1..N(doc) |-> k],
              LAMBDA m : m # n /\ doc.nodes[m].tag \in tags /\ IsDesc(doc, m, n))

\* element.querySelector(tags) !== null
HasDesc(doc, n, tags) ==
    \E m \in 1..N(doc) : m # n /\ doc.nodes[m].tag \in tags /\ IsDesc(doc, m, n)

\* the element and its descendants, in document order (what cloneNode(true) copies)
Subtree(doc, n) ==
    SelectSeq([k \in 1..N(doc) |-> k], LAMBDA m : m = n \/ (n # 0 /\ IsDesc(doc, m, n)) \/ n = 0)

\* the ancestors of m inside the subtree rooted at top (top included, m excluded)
RECURSIVE AncestorsWithin(_, _, _)
AncestorsWithin(doc, m, top) ==
    IF m = top \/ m = 0 THEN {}
    ELSE LET p == doc.nodes[m].parent
         IN  IF p = 0 THEN {} ELSE {p} \cup AncestorsWithin(doc, p, top)

-----------------------------------------------------------------------------
(* Serialized lengths (String.length of XMLSerializer / outerHTML output) *)

AttrLen(nd) ==
      (IF nd.id # NoStr THEN 6 + Len(nd.id) ELSE 0)
    + (IF nd.cls # NoStr THEN 9 + Len(nd.cls) ELSE 0)
    + (IF nd.fill # "" THEN 8 + ValLen(nd.fill) ELSE 0)
    + (IF nd.stroke # "" THEN 10 + ValLen(nd.stroke) ELSE 0)
    + (IF nd.d # NoD THEN 5 + nd.d ELSE 0)
    + (IF nd.href # NoStr THEN 9 + Len(nd.href) ELSE 0)
    + GeomLen(nd.tag)

RECURSIVE OuterLen(_, _)
\* element.outerHTML.length
OuterLen(doc, n) ==
    LET nd == doc.nodes[n]
        ch == Children(doc, n)
    IN  IF ch = <<>> THEN TagLen(nd.tag) + 3 + AttrLen(nd)
        ELSE 2 * TagLen(nd.tag) + 5 + AttrLen(nd)
             + SumSeq([k \in 1..Len(ch) |-> OuterLen(doc, ch[k])])

\* element.innerHTML.length
InnerLen(doc, n) ==
    LET ch == Children(doc, n)
    IN  SumSeq([k \in 1..Len(ch) |-> OuterLen(doc, ch[k])])

\* <style>.a{}</style> is 19 characters
StyleLen == 10 + 9

\* viewBox="x y w h" with its leading space, for the one- and two-digit numbers
\* and the three-digit numbers the model uses
NumLen(x) == IF x < 0 THEN (IF x > -10 THEN 2 ELSE IF x > -100 THEN 3 ELSE 4)
             ELSE IF x < 10 THEN 1 ELSE IF x < 100 THEN 2 ELSE 3
VbLen(vb) == IF vb = <<>> THEN 0
             ELSE 11 + NumLen(vb[1]) + NumLen(vb[2]) + NumLen(vb[3]) + NumLen(vb[4]) + 3

\* serializeToString(rootSvg).length: <svg xmlns="http://www.w3.org/2000/svg" ...>...</svg>
RootLen(doc) ==
    46 + VbLen(doc.vb) + (IF doc.style THEN StyleLen ELSE 0)
       + SumSeq([k \in 1..Len(Children(doc, 0)) |-> OuterLen(doc, Children(doc, 0)[k])])

-----------------------------------------------------------------------------
(* Fragments (ExtractedIcon) *)

\* the id template of a fragment: its fields are the interpolated parts of the
\* template string; t is the Date.now() part, set when the fragment is created
IdOf(f, k, key, n, m) == [f |-> f, k |-> k, key |-> key, n |-> n, m |-> m, t |-> 0]

\* a display name: the template it was built with, its text part and its number
NameOf(fmt, text, n) == [fmt |-> fmt, text |-> text, n |-> n]

\* own: the attribute itself supplies a visible paint
Paints(v) == v # "" /\ v # "none"

\* The elements a fragment holds, after the attribute changes rep makes to the
\* clone.  members: the source nodes copied, top: the candidate element,
\* wF / wS: the wrapper <svg> carries a fill / stroke attribute.
\* supF / supS: an ancestor inside the fragment supplies fill / stroke.
MkEls(doc, members, rep, top, wF, wS) ==
    LET at(m) == rep[m]
        anc(m) == AncestorsWithin(doc, m, top) \cap Range(members)
    IN  [k \in 1..Len(members) |->
            LET m == members[k]
            IN  [n      |-> m,
                 tag    |-> doc.nodes[m].tag,
                 fill   |-> at(m).fill,
                 stroke |-> at(m).stroke,
                 supF   |-> wF \/ \E a \in anc(m) : Paints(at(a).fill),
                 supS   |-> wS \/ \E a \in anc(m) : Paints(at(a).stroke)]]

\* the clone as it was copied: no attribute is changed
NoRepair(doc, top) ==
    [m \in 1..N(doc) |-> [fill |-> doc.nodes[m].fill, stroke |-> doc.nodes[m].stroke]]

\* characters the attribute changes of rep add to the serialized clone
RepairDelta(doc, members, rep) ==
    LET attrLen(v, base) == IF v = "" THEN 0 ELSE base + ValLen(v)
    IN  SumSeq([k \in 1..Len(members) |->
            LET nd == doc.nodes[members[k]]
                r  == rep[members[k]]
            IN  (attrLen(r.fill, 8) - attrLen(nd.fill, 8))
              + (attrLen(r.stroke, 10) - attrLen(nd.stroke, 10))])

Frag(id, origin, strategy, name, vb, style, els, dims, len) ==
    [id |-> id, origin |-> origin, strategy |-> strategy, name |-> name,
     rootTag |-> "svg", viewBox |-> vb, style |-> style, els |-> els,
     dims |-> dims, len |-> len, src |-> 0]

\* what one extraction call did: the fragments returned, the strategies whose
\* block ran (in order), whether an exception left the call, and the fragments
\* collected before it did
Result(icons, ran) == [icons |-> icons, ran |-> ran, threw |-> FALSE, partial |-> icons]
Thrown(partial, ran) == [icons |-> <<>>, ran |-> ran, threw |-> TRUE, partial |-> partial]

\* the `icons` array of an extraction under way, with the strategies whose block
\* has been entered
NoIcons == [icons |-> <<>>, ran |-> <<>>]
Add(acc, tag, new) == [icons |-> acc.icons \o new, ran |-> Append(acc.ran, tag)]

\* return icons.slice(0, max)
Returned(acc, max) == Result(Slice(acc.icons, max), acc.ran)

\* return icons
ReturnedAll(acc) == Result(acc.icons, acc.ran)

\* the document the parser accepted: no parsererror and an <svg> element found
\* by doc.querySelector('svg')
ParserError(doc) == doc.malformed
HasSvg(doc) == doc.root \in {"svg", "nested"}

-----------------------------------------------------------------------------
(* IconExtractor.tsx *)

IE_ContentLimit == 5000000
IE_MinIconLen == 100
IE_MaxIconLen == 50000
MAX_ICONS_PER_TYPE == 50
IE_MaxIcons == 100

\* IconExtractor.tsx:59-66, 171-178: dimensions from the root viewBox, else 24
ViewBoxDim(doc, k) == IF doc.vb # <<>> /\ doc.vb[k] # 0 THEN doc.vb[k] ELSE 24

\* IconExtractor.tsx:77-86: the visibility pass over the clone's descendants
IE_Repair(doc, top) ==
    [m \in 1..N(doc) |->
        LET nd  == doc.nodes[m]
            sel == m # top
                   /\ nd.tag \in {"path", "circle", "rect", "polygon", "line", "ellipse"}
            f1  == IF sel /\ nd.fill = "" /\ nd.stroke = "" THEN "currentColor" ELSE nd.fill
            s1  == IF sel /\ f1 = "none" /\ nd.stroke = "" THEN "currentColor"
                   ELSE nd.stroke
        IN  [fill |-> f1, stroke |-> s1]]

\* IconExtractor.tsx:84: stroke-width="1" goes with every stroke the pass adds
IE_StrokeWidths(doc, members, top) ==
    SumSeq([k \in 1..Len(members) |->
        IF IE_Repair(doc, top)[members[k]].stroke # doc.nodes[members[k]].stroke
        THEN 17 ELSE 0])

\* createIcon: <<fragment>>, or <<>> where the code returns null
IE_createIcon(doc, fileName, n, index, elementType) ==
    LET w == ViewBoxDim(doc, 3)
        h == ViewBoxDim(doc, 4)
        members == Subtree(doc, n)
        len == 81 + 2 * NumLen(w) + 2 * NumLen(h) + OuterLen(doc, n)
               + RepairDelta(doc, members, IE_Repair(doc, n))
               + IE_StrokeWidths(doc, members, n)
    IN  IF len < IE_MinIconLen \/ len > IE_MaxIconLen THEN <<>>
        ELSE <<Frag(IdOf(Stem(fileName), elementType, NoStr, index, 0), n, elementType,
                    NameOf("stem-type-n", NoStr, index + 1), TRUE, FALSE,
                    MkEls(doc, members, IE_Repair(doc, n), n, FALSE, FALSE),
                    <<w, h>>, len)>>

\* the last resort of IconExtractor.tsx:163-196: the root serialized as it is
IE_Full(doc, fileName) ==
    IF RootLen(doc) < IE_MaxIconLen
    THEN <<Frag(IdOf(Stem(fileName), "full", NoStr, 0, 0), 0, "full",
                NameOf("stem", NoStr, 0), doc.vb # <<>>, doc.style,
                MkEls(doc, Subtree(doc, 0), NoRepair(doc, 0), 0, FALSE, FALSE),
                <<ViewBoxDim(doc, 3), ViewBoxDim(doc, 4)>>, RootLen(doc))>>
    ELSE <<>>

\* IconExtractor.tsx:126-135
IE_Symbols(doc, fileName, acc) ==
    LET symbols == Slice(QSA(doc, 0, {"symbol"}), MAX_ICONS_PER_TYPE)
    IN  Add(acc, "symbol",
            Flatten([k \in 1..Len(symbols) |->
                IE_createIcon(doc, fileName, symbols[k], k - 1, "symbol")]))

\* IconExtractor.tsx:137-150
IE_Groups(doc, fileName, acc) ==
    LET groups == Slice(QSA(doc, 0, {"g"}), MAX_ICONS_PER_TYPE)
    IN  IF acc.icons # <<>> THEN acc
        ELSE Add(acc, "group",
                 Flatten([k \in 1..Len(groups) |->
                     IF HasDesc(doc, groups[k], Primitives)
                     THEN IE_createIcon(doc, fileName, groups[k], k - 1, "group")
                     ELSE <<>>]))

\* IconExtractor.tsx:152-161
IE_Paths(doc, fileName, acc) ==
    LET paths == Slice(QSA(doc, 0, {"path"}), MAX_ICONS_PER_TYPE)
    IN  IF acc.icons # <<>> THEN acc
        ELSE Add(acc, "path",
                 Flatten([k \in 1..Len(paths) |->
                     IE_createIcon(doc, fileName, paths[k], k - 1, "path")]))

\* IconExtractor.tsx:163-196
IE_Whole(doc, fileName, acc) ==
    IF acc.icons # <<>> THEN acc ELSE Add(acc, "full", IE_Full(doc, fileName))

\* IconExtractor.tsx:24-200
IE_extractIconsFromSvg(doc, fileName, size) ==
    IF size > IE_ContentLimit \/ ParserError(doc) \/ ~HasSvg(doc) THEN Result(<<>>, <<>>)
    ELSE Returned(IE_Whole(doc, fileName,
                  IE_Paths(doc, fileName,
                  IE_Groups(doc, fileName,
                  IE_Symbols(doc, fileName, NoIcons)))), IE_MaxIcons)

-----------------------------------------------------------------------------
(* part_007: the older IconExtractor *)

\* the substring test of String.prototype.includes
ContainsSeq(s, w) ==
    \E k \in 0..(Len(s) - Len(w)) : \A j \in 1..Len(w) : s[k + j] = w[j]

Layer == <<"l", "a", "y", "e", "r">>
Background == <<"b", "a", "c", "k", "g", "r", "o", "u", "n", "d">>

\* part_007:47-67 getBoundingBox reads the x, y, width, height and viewBox
\* attributes; the elements of the model carry none of them, which leaves the
\* default bounds
P7_getBoundingBox(doc, n) == <<0, 0, 24, 24>>

\* document.getElementById: the first element with that id, 0 if none
GetElementById(doc, id) ==
    LET hits == {m \in 1..N(doc) : doc.nodes[m].id = id}
    IN  IF hits = {} \/ id = NoStr THEN 0 ELSE CHOOSE m \in hits : \A o \in hits : m <= o

\* part_007:70-141 createIcon (it has no try/catch and no size test)
P7_createIcon(doc, fileName, n, index, elementType, bounds) ==
    LET nd == doc.nodes[n]
        members == Subtree(doc, n)
    IN  <<Frag(IdOf(Stem(fileName), elementType, NoStr, index, 0), n, elementType,
               NameOf("stem-type-n", NoStr, index + 1), TRUE, FALSE,
               MkEls(doc, members, NoRepair(doc, n), n, Paints(nd.fill), Paints(nd.stroke)),
               <<bounds[3], bounds[4]>>,
               89 + AttrLen([nd EXCEPT !.id = NoStr, !.cls = NoStr, !.d = NoD,
                                       !.href = NoStr, !.tag = "g"])
                  + OuterLen(doc, n))>>

P7_NonVisual == {"style", "clipPath", "mask", "filter", "linearGradient", "radialGradient"}

\* tagName.toLowerCase()
LowerTag(tag) ==
    CASE tag = "clipPath"       -> "clippath"
      [] tag = "linearGradient" -> "lineargradient"
      [] tag = "radialGradient" -> "radialgradient"
      [] OTHER                  -> tag

P7_Full(doc, fileName) ==
    <<Frag(IdOf(Stem(fileName), "full", NoStr, 0, 0), 0, "full",
           NameOf("stem", NoStr, 0), doc.vb # <<>>, doc.style,
           MkEls(doc, Subtree(doc, 0), NoRepair(doc, 0), 0, FALSE, FALSE),
           <<ViewBoxDim(doc, 3), ViewBoxDim(doc, 4)>>, RootLen(doc))>>

\* part_007:158-167
P7_Symbols(doc, fileName, acc) ==
    LET symbols == QSA(doc, 0, {"symbol"})
    IN  IF symbols = <<>> THEN acc
        ELSE Add(acc, "symbol",
                 Flatten([k \in 1..Len(symbols) |->
                     P7_createIcon(doc, fileName, symbols[k], k - 1, "symbol",
                                   P7_getBoundingBox(doc, symbols[k]))]))

\* part_007:169-182: every child of a <defs> that is not a skipped tag
P7_Defs(doc, fileName, acc) ==
    LET defs == SelectSeq(QSA(doc, 0, {"symbol", "g", "use", "style", "clipPath", "mask",
                                       "filter", "linearGradient", "radialGradient"}
                                      \cup Primitives),
                          LAMBDA m : doc.nodes[m].parent # 0
                                     /\ doc.nodes[doc.nodes[m].parent].tag = "defs")
    IN  IF acc.icons # <<>> \/ defs = <<>> THEN acc
        ELSE Add(acc, "def",
                 Flatten([k \in 1..Len(defs) |->
                     IF LowerTag(doc.nodes[defs[k]].tag) \in P7_NonVisual THEN <<>>
                     ELSE P7_createIcon(doc, fileName, defs[k], k - 1, "def",
                                        P7_getBoundingBox(doc, defs[k]))]))

\* part_007:184-199
P7_Groups(doc, fileName, acc) ==
    LET groups == QSA(doc, 0, {"g"})
    IN  IF acc.icons # <<>> \/ Len(groups) <= 1 THEN acc
        ELSE Add(acc, "group",
                 Flatten([k \in 1..Len(groups) |->
                     IF HasDesc(doc, groups[k], Primitives \cup {"use"})
                        /\ ~ContainsSeq(doc.nodes[groups[k]].id, Layer)
                        /\ ~ContainsSeq(doc.nodes[groups[k]].id, Background)
                     THEN P7_createIcon(doc, fileName, groups[k], k - 1, "group",
                                        P7_getBoundingBox(doc, groups[k]))
                     ELSE <<>>]))

\* part_007:201-218: runs whatever the earlier strategies produced; the icon is
\* built from the referenced element
P7_Uses(doc, fileName, acc) ==
    LET uses == QSA(doc, 0, {"use"})
    IN  IF uses = <<>> THEN acc
        ELSE Add(acc, "use",
                 Flatten([k \in 1..Len(uses) |->
                     IF doc.nodes[uses[k]].href # NoStr
                        /\ GetElementById(doc, doc.nodes[uses[k]].href) # 0
                     THEN P7_createIcon(doc, fileName,
                                        GetElementById(doc, doc.nodes[uses[k]].href),
                                        k - 1, "use", P7_getBoundingBox(doc, uses[k]))
                     ELSE <<>>]))

\* part_007:220-231
P7_Shapes(doc, fileName, acc) ==
    LET shapes == QSA(doc, 0, Primitives)
    IN  IF acc.icons # <<>> THEN acc
        ELSE Add(acc, "shape",
                 Flatten([k \in 1..Len(shapes) |->
                     P7_createIcon(doc, fileName, shapes[k], k - 1, doc.nodes[shapes[k]].tag,
                                   P7_getBoundingBox(doc, shapes[k]))]))

\* part_007:233-260
P7_Whole(doc, fileName, acc) ==
    IF acc.icons # <<>> THEN acc ELSE Add(acc, "full", P7_Full(doc, fileName))

\* part_007:23-264
P7_extractIconsFromSvg(doc, fileName, size) ==
    IF ParserError(doc) \/ ~HasSvg(doc) THEN Result(<<>>, <<>>)
    ELSE ReturnedAll(P7_Whole(doc, fileName,
                     P7_Shapes(doc, fileName,
                     P7_Uses(doc, fileName,
                     P7_Groups(doc, fileName,
                     P7_Defs(doc, fileName,
                     P7_Symbols(doc, fileName, NoIcons)))))))

-----------------------------------------------------------------------------
(* Grid clustering, shared by the extractors that have it *)

\* a row key that drops the fraction of y / tolerance
RowKeyTruncated(y, tolerance) == (y \div tolerance) * tolerance

\* Math.round(y / tolerance) * tolerance for integer y
RowKey(y, tolerance) == ((2 * y + tolerance) \div (2 * tolerance)) * tolerance

\* Array.prototype.sort((a, b) => a.x - b.x): stable, ascending x.
\* ps is a sequence of positions [element, x, y, width, height]
SortByX(ps) ==
    LET before(j, k) == ps[j].x < ps[k].x \/ (ps[j].x = ps[k].x /\ j < k)
        place(k) == Cardinality({j \in 1..Len(ps) : before(j, k)}) + 1
    IN  [r \in 1..Len(ps) |-> ps[CHOOSE k \in 1..Len(ps) : place(k) = r]]

\* The rows object: Object.values(rows) / Object.entries(rows) list the keys that
\* are array indices (non-negative integers) in ascending order, then the other
\* keys (negative numbers) in the order they were first inserted.
GridRowKeys(ps, tolerance) ==
    LET keyAt(k) == RowKey(ps[k].y, tolerance)
        keys == {keyAt(k) : k \in 1..Len(ps)}
        first(key) == CHOOSE k \in 1..Len(ps) : keyAt(k) = key /\ \A j \in 1..(k-1) : keyAt(j) # key
        negs == {key \in keys : key < 0}
        negFirsts == SortedSeq({first(key) : key \in negs})
    IN  SortedSeq({key \in keys : key >= 0})
        \o [k \in 1..Len(negFirsts) |-> keyAt(negFirsts[k])]

\* the rows in listing order, each sorted by x
GridRows(ps, tolerance) ==
    LET keys == GridRowKeys(ps, tolerance)
    IN  [r \in 1..Len(keys) |->
            SortByX(SelectSeq(ps, LAMBDA p : RowKey(p.y, tolerance) = keys[r]))]

Pos(n, x, y, w, h) == [element |-> n, x |-> x, y |-> y, width |-> w, height |-> h]

\* length of the viewBox attribute value: "x y w h", or the 9 characters of a
\* default such as "0 0 24 24"; "0 0 100 100" has 11
VbStrLen(vb, dflt) ==
    IF vb = <<>> THEN dflt
    ELSE NumLen(vb[1]) + NumLen(vb[2]) + NumLen(vb[3]) + NumLen(vb[4]) + 3

\* what (el as any).getBBox ? el.getBBox() : <fallback> gives in the environment
\* of the document: "box", "nofn" (getBBox is not a function) or "throws"
BBoxOutcome(doc) ==
    CASE doc.env = "missing" -> "nofn"
      [] doc.env = "throws"  -> "throws"
      [] OTHER               -> "box"

\* the box getBBox returns
BBox(doc, n) ==
    IF doc.env = "zero" \/ doc.nodes[n].box = NoBox THEN <<0, 0, 0, 0>> ELSE doc.nodes[n].box

-----------------------------------------------------------------------------
(* AdvancedIconExtractor.tsx, lines 1-386 *)

ADV1_ContentLimit == 5000000
ADV1_PerStrategy == 30
ADV1_GridElements == 50
ADV1_GridTolerance == 100
ADV1_PerRow == 10
ADV1_GridIcons == 20
ADV1_FewIcons == 3
ADV1_MinWrapperLen == 100
ADV1_FullMin == 200
ADV1_FullMax == 100000
ADV1_MaxIcons == 25

\* AdvancedIconExtractor.tsx:25-47
ADV1_isValidIcon(doc, n) ==
    LET paths == QSA(doc, n, {"path"})
    IN  /\ HasDesc(doc, n, {"path", "circle", "rect", "polygon", "ellipse", "line"})
        /\ paths # <<>> => ~(doc.nodes[paths[1]].d = NoD \/ doc.nodes[paths[1]].d = 0
                              \/ doc.nodes[paths[1]].d < 10)

\* AdvancedIconExtractor.tsx:115-135: length of the wrapper around outerHTML
ADV1_WrapperLen(doc, n) ==
    107 + VbStrLen(doc.vb, 11) + (IF doc.style THEN StyleLen ELSE 0) + OuterLen(doc, n)

\* an icon is pushed when the wrapper is longer than 100 characters
Longer(frag, min) == IF frag.len > min THEN <<frag>> ELSE <<>>

ADV1_Icon(doc, id, n, strategy, name, dims) ==
    Longer(Frag(id, n, strategy, name, TRUE, doc.style,
                MkEls(doc, Subtree(doc, n), NoRepair(doc, n), n, FALSE, FALSE),
                dims, ADV1_WrapperLen(doc, n)),
           ADV1_MinWrapperLen)

\* the name `attr || fallback` of AdvancedIconExtractor.tsx:177, 209, 241
ADV1_Name(doc, n, type, index, withClass) ==
    IF doc.nodes[n].id # NoStr THEN NameOf("attr", doc.nodes[n].id, 0)
    ELSE IF withClass /\ doc.nodes[n].cls # NoStr THEN NameOf("attr", doc.nodes[n].cls, 0)
    ELSE NameOf("file-type-n", <<type>>, index + 1)

\* AdvancedIconExtractor.tsx:60-77: the positions of the valid elements whose
\* box is larger than 5 x 5; without getBBox the box is 20 x 20 at the origin
ADV1_Positions(doc, validElements) ==
    LET boxOf(n) == IF BBoxOutcome(doc) = "nofn" THEN <<0, 0, 20, 20>> ELSE BBox(doc, n)
        kept == SelectSeq(validElements,
                          LAMBDA n : BBoxOutcome(doc) # "throws"
                                     /\ boxOf(n)[3] > 5 /\ boxOf(n)[4] > 5)
    IN  [k \in 1..Len(kept) |->
            Pos(kept[k], boxOf(kept[k])[1], boxOf(kept[k])[2],
                boxOf(kept[k])[3], boxOf(kept[k])[4])]

\* AdvancedIconExtractor.tsx:87-112: one icon per cell of the rows
ADV1_GridCells(doc, rows) ==
    Flatten([r \in 1..Len(rows) |->
        Flatten([c \in 1..Len(Slice(rows[r], ADV1_PerRow)) |->
            ADV1_Icon(doc, IdOf("", "grid", NoStr, r - 1, c - 1),
                      rows[r][c].element, "grid",
                      NameOf("grid-icon-r-c", NoStr, ADV1_PerRow * (r - 1) + (c - 1)),
                      <<rows[r][c].width, rows[r][c].height>>)])])

\* AdvancedIconExtractor.tsx:49-113
ADV1_detectGridPattern(doc, elements) ==
    Slice(ADV1_GridCells(doc,
              GridRows(ADV1_Positions(doc,
                           SelectSeq(elements, LAMBDA n : ADV1_isValidIcon(doc, n))),
                       ADV1_GridTolerance)),
          ADV1_GridIcons)

ADV1_Full(doc, fileName) ==
    IF RootLen(doc) < ADV1_FullMax /\ RootLen(doc) > ADV1_FullMin
    THEN <<Frag(IdOf(fileName, "full", NoStr, 0, 0), 0, "full",
                NameOf("stem", NoStr, 0), doc.vb # <<>>, doc.style,
                MkEls(doc, Subtree(doc, 0), NoRepair(doc, 0), 0, FALSE, FALSE),
                <<100, 100>>, RootLen(doc))>>
    ELSE <<>>

\* the candidates of one structural strategy: the valid ones are wrapped
ADV1_Candidates(doc, fileName, list, type, withClass) ==
    Flatten([k \in 1..Len(list) |->
        IF ADV1_isValidIcon(doc, list[k])
        THEN ADV1_Icon(doc, IdOf(fileName, type, NoStr, k - 1, 0), list[k], type,
                       ADV1_Name(doc, list[k], type, k - 1, withClass), <<24, 24>>)
        ELSE <<>>])

\* AdvancedIconExtractor.tsx:162-192
ADV1_Symbols(doc, fileName, acc) ==
    Add(acc, "symbol",
        ADV1_Candidates(doc, fileName, Slice(QSA(doc, 0, {"symbol"}), ADV1_PerStrategy),
                        "symbol", FALSE))

\* AdvancedIconExtractor.tsx:194-224
ADV1_Defs(doc, fileName, acc) ==
    IF acc.icons # <<>> THEN acc
    ELSE Add(acc, "def",
             ADV1_Candidates(doc, fileName,
                 Slice(SelectSeq(QSA(doc, 0, {"g"}),
                           LAMBDA m : doc.nodes[m].parent # 0
                                      /\ doc.nodes[doc.nodes[m].parent].tag = "defs"),
                       ADV1_PerStrategy),
                 "def", FALSE))

\* AdvancedIconExtractor.tsx:226-256
ADV1_Named(doc, fileName, acc) ==
    IF acc.icons # <<>> THEN acc
    ELSE Add(acc, "named",
             ADV1_Candidates(doc, fileName,
                 Slice(SelectSeq(QSA(doc, 0, {"g"}),
                           LAMBDA m : doc.nodes[m].parent = 0
                                      /\ (doc.nodes[m].id # NoStr \/ doc.nodes[m].cls # NoStr)),
                       ADV1_PerStrategy),
                 "named", TRUE))

\* AdvancedIconExtractor.tsx:258-289: the <use> element itself is wrapped
ADV1_Uses(doc, fileName, acc) ==
    LET useElements == Slice(QSA(doc, 0, {"use"}), ADV1_PerStrategy)
    IN  IF acc.icons # <<>> THEN acc
        ELSE Add(acc, "use",
                 Flatten([k \in 1..Len(useElements) |->
                     IF doc.nodes[useElements[k]].href # NoStr
                     THEN ADV1_Icon(doc, IdOf(fileName, "use", NoStr, k - 1, 0),
                                    useElements[k], "use",
                                    NameOf("file-use-href-n", doc.nodes[useElements[k]].href, k),
                                    <<24, 24>>)
                     ELSE <<>>]))

\* AdvancedIconExtractor.tsx:291-299
ADV1_Grid(doc, fileName, acc) ==
    IF Len(acc.icons) < ADV1_FewIcons
    THEN Add(acc, "grid",
             ADV1_detectGridPattern(doc,
                 Slice(SelectSeq(QSA(doc, 0, {"g", "path"}),
                           LAMBDA m : doc.nodes[m].tag = "g" \/ doc.nodes[m].d # NoD),
                       ADV1_GridElements)))
    ELSE acc

\* AdvancedIconExtractor.tsx:301-326
ADV1_Whole(doc, fileName, acc) ==
    IF acc.icons # <<>> THEN acc ELSE Add(acc, "full", ADV1_Full(doc, fileName))

\* AdvancedIconExtractor.tsx:137-330
ADV1_extractIconsAdvanced(doc, fileName, size) ==
    IF size > ADV1_ContentLimit \/ ParserError(doc) \/ ~HasSvg(doc) THEN Result(<<>>, <<>>)
    ELSE Returned(ADV1_Whole(doc, fileName,
                  ADV1_Grid(doc, fileName,
                  ADV1_Uses(doc, fileName,
                  ADV1_Named(doc, fileName,
                  ADV1_Defs(doc, fileName,
                  ADV1_Symbols(doc, fileName, NoIcons)))))), ADV1_MaxIcons)

-----------------------------------------------------------------------------
(* AdvancedIconExtractor.tsx, lines 389-757: the second component of the file *)

ADV2_ContentLimit == 5000000
ADV2_PerStrategy == 50
ADV2_MaxGroupChildren == 50
ADV2_FewIcons == 5
ADV2_GridElements == 100
ADV2_GridTolerance == 50
ADV2_GridIcons == 50
ADV2_FullMax == 50000
ADV2_MaxIcons == 100

\* AdvancedIconExtractor.tsx:473-486 createIndividualSVG around outerHTML: the
\* wrapper carries the viewBox and no <style>; it is never empty
ADV2_Icon(doc, id, n, strategy, name, dims) ==
    Frag(id, n, strategy, name, TRUE, FALSE,
         MkEls(doc, Subtree(doc, n), NoRepair(doc, n), n, FALSE, FALSE),
         dims, 98 + VbStrLen(doc.vb, 11) + OuterLen(doc, n))

\* AdvancedIconExtractor.tsx:416-436: every element gets a position; a missing
\* or throwing getBBox, and a zero width or height, give the 20 x 20 default
ADV2_Positions(doc, elements) ==
    LET val(n, k, dflt) ==
            IF BBoxOutcome(doc) = "box" /\ BBox(doc, n)[k] # 0 THEN BBox(doc, n)[k] ELSE dflt
    IN  [k \in 1..Len(elements) |->
            Pos(elements[k], val(elements[k], 1, 0), val(elements[k], 2, 0),
                val(elements[k], 3, 20), val(elements[k], 4, 20))]

\* AdvancedIconExtractor.tsx:446-468: one icon per cell of the rows
ADV2_GridCells(doc, rows) ==
    Flatten([r \in 1..Len(rows) |->
        [c \in 1..Len(rows[r]) |->
            ADV2_Icon(doc, IdOf("", "grid", NoStr, r - 1, c - 1),
                      rows[r][c].element, "grid",
                      NameOf("grid-icon-r-c", NoStr, ADV2_GridElements * (r - 1) + (c - 1)),
                      <<rows[r][c].width, rows[r][c].height>>)]])

\* AdvancedIconExtractor.tsx:412-471
ADV2_detectGridPattern(doc, elements) ==
    Slice(ADV2_GridCells(doc, GridRows(ADV2_Positions(doc, elements), ADV2_GridTolerance)),
          ADV2_GridIcons)

\* the candidates of one structural strategy: each one is wrapped
ADV2_Candidates(doc, fileName, list, type) ==
    [k \in 1..Len(list) |->
        ADV2_Icon(doc, IdOf(fileName, type, NoStr, k - 1, 0), list[k], type,
                  ADV1_Name(doc, list[k], type, k - 1, FALSE), <<24, 24>>)]

\* AdvancedIconExtractor.tsx:513-540
ADV2_Symbols(doc, fileName, acc) ==
    Add(acc, "symbol",
        ADV2_Candidates(doc, fileName, Slice(QSA(doc, 0, {"symbol"}), ADV2_PerStrategy),
                        "symbol"))

\* AdvancedIconExtractor.tsx:542-569
ADV2_Defs(doc, fileName, acc) ==
    IF acc.icons # <<>> THEN acc
    ELSE Add(acc, "def",
             ADV2_Candidates(doc, fileName,
                 Slice(SelectSeq(QSA(doc, 0, {"g"}),
                           LAMBDA m : doc.nodes[m].parent # 0
                                      /\ doc.nodes[doc.nodes[m].parent].tag = "defs"),
                       ADV2_PerStrategy),
                 "def"))

\* AdvancedIconExtractor.tsx:571-601: 'svg > g' with 1 to 49 child elements; the
\* index of the id and of the name is the position in the sliced list
ADV2_Groups(doc, fileName, acc) ==
    LET groups == Slice(SelectSeq(QSA(doc, 0, {"g"}), LAMBDA m : doc.nodes[m].parent = 0),
                        ADV2_PerStrategy)
        kept == SelectSeq([k \in 1..Len(groups) |-> k],
                    LAMBDA k : /\ Len(Children(doc, groups[k])) > 0
                               /\ Len(Children(doc, groups[k])) < ADV2_MaxGroupChildren)
    IN  IF acc.icons # <<>> THEN acc
        ELSE Add(acc, "group",
                 [j \in 1..Len(kept) |->
                     ADV2_Icon(doc, IdOf(fileName, "group", NoStr, kept[j] - 1, 0),
                               groups[kept[j]], "group",
                               ADV1_Name(doc, groups[kept[j]], "group", kept[j] - 1, FALSE),
                               <<24, 24>>)])

\* AdvancedIconExtractor.tsx:603-633: the <use> element itself is wrapped
ADV2_Uses(doc, fileName, acc) ==
    LET useElements == Slice(QSA(doc, 0, {"use"}), ADV2_PerStrategy)
    IN  IF acc.icons # <<>> THEN acc
        ELSE Add(acc, "use",
                 Flatten([k \in 1..Len(useElements) |->
                     IF doc.nodes[useElements[k]].href # NoStr
                     THEN <<ADV2_Icon(doc, IdOf(fileName, "use", NoStr, k - 1, 0),
                                      useElements[k], "use",
                                      NameOf("file-use-href-n", doc.nodes[useElements[k]].href, k),
                                      <<24, 24>>)>>
                     ELSE <<>>]))

\* AdvancedIconExtractor.tsx:635-641: grid detection comes fifth, before the
\* individual shapes
ADV2_Grid(doc, fileName, acc) ==
    IF Len(acc.icons) < ADV2_FewIcons
    THEN Add(acc, "grid",
             ADV2_detectGridPattern(doc,
                 Slice(QSA(doc, 0, {"g", "path", "circle", "rect", "polygon", "ellipse"}),
                       ADV2_GridElements)))
    ELSE acc

\* AdvancedIconExtractor.tsx:643-670
ADV2_Shapes(doc, fileName, acc) ==
    IF acc.icons # <<>> THEN acc
    ELSE Add(acc, "shape",
             ADV2_Candidates(doc, fileName,
                 Slice(QSA(doc, 0, {"path", "circle", "rect", "polygon", "ellipse"}),
                       ADV2_PerStrategy),
                 "path"))

\* AdvancedIconExtractor.tsx:676-692: the serialised root, when shorter than
\* 50000 characters
ADV2_Full(doc, fileName) ==
    IF RootLen(doc) < ADV2_FullMax
    THEN <<Frag(IdOf(fileName, "full", NoStr, 0, 0), 0, "full",
                NameOf("stem", NoStr, 0), doc.vb # <<>>, doc.style,
                MkEls(doc, Subtree(doc, 0), NoRepair(doc, 0), 0, FALSE, FALSE),
                <<100, 100>>, RootLen(doc))>>
    ELSE <<>>

\* AdvancedIconExtractor.tsx:672-696
ADV2_Whole(doc, fileName, acc) ==
    IF acc.icons # <<>> THEN acc ELSE Add(acc, "full", ADV2_Full(doc, fileName))

\* AdvancedIconExtractor.tsx:488-700
ADV2_extractIconsAdvanced(doc, fileName, size) ==
    IF size > ADV2_ContentLimit \/ ParserError(doc) \/ ~HasSvg(doc) THEN Result(<<>>, <<>>)
    ELSE Returned(ADV2_Whole(doc, fileName,
                  ADV2_Shapes(doc, fileName,
                  ADV2_Grid(doc, fileName,
                  ADV2_Uses(doc, fileName,
                  ADV2_Groups(doc, fileName,
                  ADV2_Defs(doc, fileName,
                  ADV2_Symbols(doc, fileName, NoIcons))))))), ADV2_MaxIcons)

-----------------------------------------------------------------------------
(* SmartIconExtractor.tsx, lines 1-270: the first component of the file *)

SM1_MinPathData == 10
SM1_MaxGroupShapes == 10
SM1_FewGroups == 5
SM1_MaxPaths == 50
SM1_FewIcons == 10
SM1_MaxIcons == 50

\* the wrapper of SmartIconExtractor.tsx:102-104 and 159-161 around outerHTML:
\* fill="none" and stroke="#000000" on the <svg>, width and height 100
SM1_Icon(doc, id, n, strategy, name) ==
    Frag(id, n, strategy, name, TRUE, FALSE,
         MkEls(doc, Subtree(doc, n), NoRepair(doc, n), n, FALSE, TRUE),
         <<100, 100>>, 179 + VbStrLen(doc.vb, 11) + OuterLen(doc, n))

\* SmartIconExtractor.tsx:26-59 createIconFromPath: the path is written anew
\* with its d and fill="#000000"
SM1_createIconFromPath(doc, n, index, fileName) ==
    Frag(IdOf(fileName, "path", NoStr, index, 0), n, "path",
         NameOf("stem Icon n", NoStr, index + 1), TRUE, FALSE,
         MkEls(doc, <<n>>,
               [NoRepair(doc, n) EXCEPT ![n] = [fill |-> "#000000", stroke |-> ""]],
               n, FALSE, TRUE),
         <<100, 100>>, 206 + VbStrLen(doc.vb, 11) + doc.nodes[n].d)

\* SmartIconExtractor.tsx:93-127: every <g> holding 1 to 9 shapes
SM1_Groups(doc, fileName, acc) ==
    LET groups == QSA(doc, 0, {"g"})
        shapes(n) == Len(QSA(doc, n, {"path", "circle", "rect", "polygon"}))
        kept == SelectSeq([k \in 1..Len(groups) |-> k],
                    LAMBDA k : shapes(groups[k]) > 0 /\ shapes(groups[k]) < SM1_MaxGroupShapes)
    IN  Add(acc, "group",
            [j \in 1..Len(kept) |->
                SM1_Icon(doc, IdOf(fileName, "group", NoStr, kept[j] - 1, 0), groups[kept[j]],
                         "group", NameOf("stem Group n", NoStr, kept[j]))])

\* SmartIconExtractor.tsx:129-146: the first 50 paths whose d has 10 characters
\* or more
SM1_Paths(doc, fileName, acc) ==
    LET paths == QSA(doc, 0, {"path"})
        kept == Slice(SelectSeq([k \in 1..Len(paths) |-> k],
                          LAMBDA k : ~(doc.nodes[paths[k]].d = NoD \/ doc.nodes[paths[k]].d = 0
                                       \/ doc.nodes[paths[k]].d < SM1_MinPathData)),
                      SM1_MaxPaths)
    IN  IF Len(acc.icons) < SM1_FewGroups
        THEN Add(acc, "path",
                 [j \in 1..Len(kept) |->
                     SM1_createIconFromPath(doc, paths[kept[j]], kept[j] - 1, fileName)])
        ELSE acc

\* SmartIconExtractor.tsx:148-180: the other drawing elements, until the array
\* holds 50 icons
SM1_Others(doc, fileName, acc) ==
    LET otherElements == QSA(doc, 0, {"circle", "rect", "polygon", "line", "ellipse"})
        taken == Slice(otherElements, Max(SM1_MaxIcons - Len(acc.icons), 0))
    IN  IF Len(acc.icons) < SM1_FewIcons
        THEN Add(acc, "other",
                 [k \in 1..Len(taken) |->
                     SM1_Icon(doc, IdOf(fileName, doc.nodes[taken[k]].tag, NoStr, k - 1, 0),
                              taken[k], "other",
                              NameOf("stem tag n", <<doc.nodes[taken[k]].tag>>, k))])
        ELSE acc

\* SmartIconExtractor.tsx:61-184: a parser error and a missing <svg> are thrown
SM1_extractIconsFromSVG(doc, fileName, size) ==
    IF ParserError(doc) \/ ~HasSvg(doc) THEN Thrown(<<>>, <<>>)
    ELSE ReturnedAll(SM1_Others(doc, fileName,
                     SM1_Paths(doc, fileName,
                     SM1_Groups(doc, fileName, NoIcons))))

-----------------------------------------------------------------------------
(* SmartIconExtractor.tsx, lines 273-604 *)

SM2_EnoughSymbols == 5
SM2_EnoughNamed == 3
SM2_MaxGroups == 50
SM2_MaxValidGroups == 25
SM2_MaxPaths == 20
SM2_MinPathData == 20
SM2_MinValidPathData == 10
SM2_DedupeWindow == 50
SM2_MaxIcons == 30

\* SmartIconExtractor.tsx:324-354 (the d values of the model carry no
\* surrounding white space, so trim() leaves their length)
SM2_isValidIconElement(doc, n) ==
    LET paths == QSA(doc, n, {"path"})
        hasValidPath == \E k \in 1..Len(paths) :
                            doc.nodes[paths[k]].d # NoD
                            /\ doc.nodes[paths[k]].d > SM2_MinValidPathData
    IN  /\ HasDesc(doc, n, Primitives)
        /\ (paths # <<>> /\ ~hasValidPath) => HasDesc(doc, n, Primitives \ {"path"})

\* SmartIconExtractor.tsx:298-322: a <g> is replaced by its children
SM2_Members(doc, n) ==
    IF doc.nodes[n].tag = "g"
    THEN SelectSeq(Subtree(doc, n), LAMBDA m : m # n)
    ELSE Subtree(doc, n)

SM2_createStandaloneIcon(doc, n) ==
    77 + VbStrLen(doc.vb, 9)
       + (IF doc.nodes[n].tag = "g" THEN InnerLen(doc, n) ELSE OuterLen(doc, n))

SM2_Icon(doc, id, n, strategy, name) ==
    Frag(id, n, strategy, name, TRUE, FALSE,
         MkEls(doc, SM2_Members(doc, n), NoRepair(doc, n), n, TRUE, FALSE),
         <<24, 24>>, SM2_createStandaloneIcon(doc, n))

\* `${attr || fallback-index}` and its humanized form
IdKey(attr, fallback) == IF attr # NoStr THEN attr ELSE <<fallback>>
IdNum(attr, index) == IF attr # NoStr THEN -1 ELSE index
HumanName(attr, fallback, index) ==
    IF attr # NoStr THEN NameOf("text", Humanize(attr), 0)
    ELSE NameOf(fallback, NoStr, index)

\* a filter that compares an icon with its predecessor only
SM2_DedupeAdjacent(icons) ==
    LET kept == SortedSeq({k \in 1..Len(icons) :
                    k = 1 \/ ~(Abs(icons[k - 1].len - icons[k].len) < SM2_DedupeWindow)})
    IN  [k \in 1..Len(kept) |-> icons[kept[k]]]

\* SmartIconExtractor.tsx:506-511: an icon is kept when no earlier icon of the
\* array has a length within the window of its own
SM2_Dedupe(icons) ==
    LET kept == SortedSeq({k \in 1..Len(icons) :
                    \A j \in 1..(k - 1) :
                        ~(Abs(icons[j].len - icons[k].len) < SM2_DedupeWindow)})
    IN  [k \in 1..Len(kept) |-> icons[kept[k]]]

\* the first n valid members of list (forEach with the validGroupCount test)
SM2_TakeValid(doc, list, n) ==
    Slice(SelectSeq(list, LAMBDA g : SM2_isValidIconElement(doc, g)), n)

\* SmartIconExtractor.tsx:380-407
SM2_Symbols(doc, fileName, acc) ==
    LET symbols == QSA(doc, 0, {"symbol"})
    IN  Add(acc, "symbol",
            Flatten([k \in 1..Len(symbols) |->
                IF SM2_isValidIconElement(doc, symbols[k])
                THEN <<SM2_Icon(doc,
                          IdOf(fileName, "symbol", IdKey(doc.nodes[symbols[k]].id, "symbol-"),
                               IdNum(doc.nodes[symbols[k]].id, k - 1), k - 1),
                          symbols[k], "symbol",
                          HumanName(doc.nodes[symbols[k]].id, "Symbol n", k - 1))>>
                ELSE <<>>]))

\* SmartIconExtractor.tsx:409-440
SM2_Named(doc, fileName, acc) ==
    LET namedGroups == SelectSeq(QSA(doc, 0, {"g"}), LAMBDA m : doc.nodes[m].id # NoStr)
    IN  IF Len(acc.icons) < SM2_EnoughSymbols
        THEN Add(acc, "named",
                 Flatten([k \in 1..Len(namedGroups) |->
                     IF SM2_isValidIconElement(doc, namedGroups[k])
                     THEN <<SM2_Icon(doc,
                               IdOf(fileName, "group", doc.nodes[namedGroups[k]].id, -1, k - 1),
                               namedGroups[k], "named",
                               HumanName(doc.nodes[namedGroups[k]].id, "Group n", k - 1))>>
                     ELSE <<>>]))
        ELSE acc

\* SmartIconExtractor.tsx:442-473
SM2_Groups(doc, fileName, acc) ==
    LET validGroups == SM2_TakeValid(doc, Slice(QSA(doc, 0, {"g"}), SM2_MaxGroups),
                                     SM2_MaxValidGroups)
    IN  IF Len(acc.icons) < SM2_EnoughNamed
        THEN Add(acc, "group",
                 [k \in 1..Len(validGroups) |->
                     SM2_Icon(doc, IdOf(fileName, "auto", NoStr, k - 1, 0),
                              validGroups[k], "group", NameOf("Icon n", NoStr, k))])
        ELSE acc

\* SmartIconExtractor.tsx:475-504
SM2_Paths(doc, fileName, acc) ==
    LET paths == Slice(QSA(doc, 0, {"path"}), SM2_MaxPaths)
    IN  IF acc.icons = <<>>
        THEN Add(acc, "path",
                 Flatten([k \in 1..Len(paths) |->
                     IF doc.nodes[paths[k]].d # NoD /\ doc.nodes[paths[k]].d > SM2_MinPathData
                     THEN <<SM2_Icon(doc, IdOf(fileName, "path", NoStr, k - 1, 0),
                                     paths[k], "path", NameOf("Path Icon n", NoStr, k))>>
                     ELSE <<>>]))
        ELSE acc

\* SmartIconExtractor.tsx:506-511 applied to the icons array
SM2_Unique(acc) == [icons |-> SM2_Dedupe(acc.icons), ran |-> acc.ran]

\* SmartIconExtractor.tsx:380-504: the icons array when the filter is reached
SM2_Collected(doc, fileName) ==
    SM2_Paths(doc, fileName,
    SM2_Groups(doc, fileName,
    SM2_Named(doc, fileName,
    SM2_Symbols(doc, fileName, NoIcons))))

\* SmartIconExtractor.tsx:356-520
SM2_extractIconsFromSVG(doc, fileName, size) ==
    IF ParserError(doc) \/ ~HasSvg(doc) THEN Result(<<>>, <<>>)
    ELSE Returned(SM2_Unique(SM2_Collected(doc, fileName)), SM2_MaxIcons)

-----------------------------------------------------------------------------
(* part_008: SmartIconExtractor with bounding-box view boxes *)

P8_EnoughIcons == 5
P8_MaxGroups == 50
P8_MaxGroupElements == 50
P8_MaxDirect == 30

P8_Counted == {"path", "circle", "rect", "polygon", "line"}

\* part_008:72-120 createCompleteIconSVG: the attribute changes made to the clone
P8_Repair(doc, top) ==
    [m \in 1..N(doc) |->
        LET nd == doc.nodes[m]
            recolour == IF nd.fill = "none" \/ nd.fill = "" THEN "currentColor" ELSE nd.fill
        IN  IF m # top THEN [fill |-> recolour, stroke |-> nd.stroke]
            ELSE IF nd.tag = "g" THEN [fill |-> "currentColor", stroke |-> "currentColor"]
            ELSE IF nd.tag = "path" THEN [fill |-> recolour, stroke |-> nd.stroke]
            ELSE [fill |-> nd.fill, stroke |-> nd.stroke]]

\* part_008:54-70 getElementDimensions
P8_getElementDimensions(doc, n) ==
    IF BBoxOutcome(doc) = "box"
    THEN <<Max(24, BBox(doc, n)[3]), Max(24, BBox(doc, n)[4])>>
    ELSE <<24, 24>>

\* part_008:25-52 calculateFullIconViewBox always yields a viewBox string:
\* the padded box (40% of the box each side), else "-100 -100 200 200"
P8_ViewBoxLen(doc, n) ==
    IF BBoxOutcome(doc) = "box" /\ BBox(doc, n)[3] > 0 /\ BBox(doc, n)[4] > 0
    THEN LET b == BBox(doc, n)
         IN  NumLen(b[1] - (2 * b[3]) \div 5) + NumLen(b[2] - (2 * b[4]) \div 5)
             + NumLen(b[3] + (4 * b[3]) \div 5) + NumLen(b[4] + (4 * b[4]) \div 5) + 3
    ELSE 17

P8_Icon(doc, id, n, strategy, name) ==
    Frag(id, n, strategy, name, TRUE, FALSE,
         MkEls(doc, Subtree(doc, n), P8_Repair(doc, n), n, TRUE, TRUE),
         P8_getElementDimensions(doc, n),
         143 + P8_ViewBoxLen(doc, n) + OuterLen(doc, n)
             + RepairDelta(doc, Subtree(doc, n), P8_Repair(doc, n)))

\* part_008:122-198 detectGridIcons.  The loop over each row calls
\* createIndividualIconSVG, which the file does not define: the first cell
\* processed throws a ReferenceError.  TRUE when the call throws.
P8_detectGridIconsThrows(doc) ==
    LET allElements == QSA(doc, 0, {"g", "path", "circle", "rect", "polygon"})
    IN  \E k \in 1..Len(allElements) :
            /\ BBoxOutcome(doc) = "box"
            /\ BBox(doc, allElements[k])[3] > 0
            /\ BBox(doc, allElements[k])[4] > 0

\* the number of drawing elements part_008 counts inside a candidate
P8_Count(doc, n) == Len(QSA(doc, n, P8_Counted))

\* `id || class` of a group
IdOrClass(doc, n) == IF doc.nodes[n].id # NoStr THEN doc.nodes[n].id ELSE doc.nodes[n].cls

\* part_008:221-255
P8_Symbols(doc, fileName, acc) ==
    LET symbols == QSA(doc, 0, {"symbol"})
    IN  Add(acc, "symbol",
            Flatten([k \in 1..Len(symbols) |->
                IF P8_Count(doc, symbols[k]) > 0
                THEN <<P8_Icon(doc,
                          IdOf(fileName, "symbol", IdKey(doc.nodes[symbols[k]].id, "symbol-"),
                               IdNum(doc.nodes[symbols[k]].id, k - 1), k - 1),
                          symbols[k], "symbol",
                          HumanName(doc.nodes[symbols[k]].id, "Symbol n", k - 1))>>
                ELSE <<>>]))

\* part_008:257-297
P8_Groups(doc, fileName, acc) ==
    LET allGroups == Slice(QSA(doc, 0, {"g"}), P8_MaxGroups)
    IN  IF Len(acc.icons) < P8_EnoughIcons
        THEN Add(acc, "group",
                 Flatten([k \in 1..Len(allGroups) |->
                     IF P8_Count(doc, allGroups[k]) > 0
                        /\ P8_Count(doc, allGroups[k]) < P8_MaxGroupElements
                     THEN <<P8_Icon(doc,
                               IdOf(fileName, "group",
                                    IdKey(IdOrClass(doc, allGroups[k]), "group-"),
                                    IdNum(IdOrClass(doc, allGroups[k]), k - 1), k - 1),
                               allGroups[k], "group",
                               HumanName(IdOrClass(doc, allGroups[k]), "stem Icon n", k))>>
                     ELSE <<>>]))
        ELSE acc

\* part_008:299-326.  'svg > path' matches only children of an <svg> element.
P8_Direct(doc, fileName, acc) ==
    LET direct == Slice(SelectSeq(QSA(doc, 0, {"path"}),
                            LAMBDA m : doc.nodes[m].parent = 0 /\ doc.root # "other")
                        \o SelectSeq(QSA(doc, 0, {"circle", "rect", "polygon"}),
                            LAMBDA m : doc.nodes[m].parent = 0 /\ doc.root # "other"),
                        P8_MaxDirect)
    IN  IF acc.icons = <<>>
        THEN Add(acc, "direct",
                 [k \in 1..Len(direct) |->
                     P8_Icon(doc, IdOf(fileName, "direct", NoStr, k - 1, 0), direct[k],
                             "direct", NameOf("stem Element n", NoStr, k))])
        ELSE acc

\* part_008:328-334: detectGridIcons is called when fewer than 5 icons were found;
\* when it throws, the exception leaves extractIconsFromSVG
P8_Grid(doc, acc) ==
    IF Len(acc.icons) < P8_EnoughIcons
    THEN IF P8_detectGridIconsThrows(doc)
         THEN Thrown(acc.icons, Append(acc.ran, "grid"))
         ELSE Result(acc.icons, Append(acc.ran, "grid"))
    ELSE Result(acc.icons, acc.ran)

\* part_008:200-350.  svgElement is svgDoc.documentElement, whatever its tag.
P8_extractIconsFromSVG(doc, fileName, size) ==
    IF ParserError(doc) THEN Thrown(<<>>, <<>>)
    ELSE P8_Grid(doc, P8_Direct(doc, fileName,
                      P8_Groups(doc, fileName,
                      P8_Symbols(doc, fileName, NoIcons))))

-----------------------------------------------------------------------------
(* part_009: SmartIconExtractor built on innerHTML *)

P9_EnoughSymbols == 5
P9_EnoughDefs == 3
P9_EnoughGroups == 2
P9_MinGridGroups == 2
P9_GridTolerance == 50
P9_PerRow == 12
P9_MaxIcons == 25
P9_MinPathData == 10

\* part_009:33-52
P9_isValidIconElement(doc, n) ==
    /\ HasDesc(doc, n, Primitives)
    /\ \/ \E m \in Range(QSA(doc, n, {"path"})) :
              doc.nodes[m].d # NoD /\ doc.nodes[m].d > P9_MinPathData
       \/ HasDesc(doc, n, Primitives \ {"path"})

\* part_009:26-31 createStandaloneIcon(element.innerHTML, viewBox, styles)
P9_Icon(doc, id, n, strategy, name, dims) ==
    Frag(id, n, strategy, name, TRUE, doc.style,
         MkEls(doc, SelectSeq(Subtree(doc, n), LAMBDA m : m # n), NoRepair(doc, n), n, TRUE, FALSE),
         dims,
         96 + VbStrLen(doc.vb, 9) + (IF doc.style THEN StyleLen ELSE 0) + InnerLen(doc, n))

\* part_009:166-179: the positions of the valid groups; a missing getBBox or a
\* zero coordinate gives the defaults 0, 0, 20, 20
P9_Positions(doc, validGroups) ==
    LET withBounds == IF BBoxOutcome(doc) = "throws" THEN <<>> ELSE validGroups
        val(n, k, dflt) ==
            IF BBoxOutcome(doc) = "box" /\ BBox(doc, n)[k] # 0 THEN BBox(doc, n)[k] ELSE dflt
    IN  [k \in 1..Len(withBounds) |->
            Pos(withBounds[k], val(withBounds[k], 1, 0), val(withBounds[k], 2, 0),
                val(withBounds[k], 3, 20), val(withBounds[k], 4, 20))]

\* part_009:192-211: one icon per cell of the rows
P9_GridCells(doc, fileName, rows) ==
    Flatten([r \in 1..Len(rows) |->
        [c \in 1..Len(Slice(rows[r], P9_PerRow)) |->
            P9_Icon(doc, IdOf(fileName, "grid", NoStr, r - 1, c - 1),
                    rows[r][c].element, "grid",
                    NameOf("Grid Icon r-c", NoStr, P9_PerRow * r + c),
                    <<rows[r][c].width, rows[r][c].height>>)]])

\* part_009:159-212
P9_Grid(doc, fileName) ==
    LET validGroups == SelectSeq(QSA(doc, 0, {"g"}), LAMBDA g : P9_isValidIconElement(doc, g))
    IN  IF Len(validGroups) > P9_MinGridGroups
        THEN P9_GridCells(doc, fileName,
                          GridRows(P9_Positions(doc, validGroups), P9_GridTolerance))
        ELSE <<>>

\* part_009:77-100
P9_Symbols(doc, fileName, acc) ==
    LET symbols == QSA(doc, 0, {"symbol"})
    IN  Add(acc, "symbol",
            Flatten([k \in 1..Len(symbols) |->
                IF P9_isValidIconElement(doc, symbols[k])
                THEN <<P9_Icon(doc,
                          IdOf(fileName, "symbol", IdKey(doc.nodes[symbols[k]].id, "symbol-"),
                               IdNum(doc.nodes[symbols[k]].id, k - 1), 0),
                          symbols[k], "symbol",
                          HumanName(doc.nodes[symbols[k]].id, "Symbol n", k - 1), <<24, 24>>)>>
                ELSE <<>>]))

\* part_009:102-127
P9_Defs(doc, fileName, acc) ==
    LET defsGroups == SelectSeq(QSA(doc, 0, {"g"}),
                          LAMBDA m : doc.nodes[m].parent # 0
                                     /\ doc.nodes[doc.nodes[m].parent].tag = "defs")
    IN  IF Len(acc.icons) < P9_EnoughSymbols
        THEN Add(acc, "def",
                 Flatten([k \in 1..Len(defsGroups) |->
                     IF P9_isValidIconElement(doc, defsGroups[k])
                     THEN <<P9_Icon(doc,
                               IdOf(fileName, "def", IdKey(doc.nodes[defsGroups[k]].id, "def-"),
                                    IdNum(doc.nodes[defsGroups[k]].id, k - 1), 0),
                               defsGroups[k], "def",
                               HumanName(doc.nodes[defsGroups[k]].id, "Def n", k - 1),
                               <<24, 24>>)>>
                     ELSE <<>>]))
        ELSE acc

\* part_009:129-154
P9_Groups(doc, fileName, acc) ==
    LET topLevelGroups == SelectSeq(QSA(doc, 0, {"g"}), LAMBDA m : doc.nodes[m].parent = 0)
    IN  IF Len(acc.icons) < P9_EnoughDefs
        THEN Add(acc, "group",
                 Flatten([k \in 1..Len(topLevelGroups) |->
                     IF P9_isValidIconElement(doc, topLevelGroups[k])
                     THEN <<P9_Icon(doc,
                               IdOf(fileName, "group",
                                    IdKey(IdOrClass(doc, topLevelGroups[k]), "group-"),
                                    IdNum(IdOrClass(doc, topLevelGroups[k]), k - 1), 0),
                               topLevelGroups[k], "group", NameOf("Icon n", NoStr, k),
                               <<24, 24>>)>>
                     ELSE <<>>]))
        ELSE acc

\* part_009:156-213
P9_GridStep(doc, fileName, acc) ==
    IF Len(acc.icons) < P9_EnoughGroups THEN Add(acc, "grid", P9_Grid(doc, fileName)) ELSE acc

\* part_009:54-222
P9_extractIconsFromSVG(doc, fileName, size) ==
    IF ParserError(doc) \/ ~HasSvg(doc) THEN Result(<<>>, <<>>)
    ELSE Returned(P9_GridStep(doc, fileName,
                  P9_Groups(doc, fileName,
                  P9_Defs(doc, fileName,
                  P9_Symbols(doc, fileName, NoIcons)))), P9_MaxIcons)

-----------------------------------------------------------------------------
(* Inputs: documents, files and batches *)

It(kind, id, cls, ptag, d, fill, stroke, href) ==
    [kind |-> kind, id |-> id, cls |-> cls, ptag |-> ptag, d |-> d, fill |-> fill,
     stroke |-> stroke, href |-> href, x |-> 0, y |-> 0, w |-> 24, h |-> 24]

IdA == <<"a">>
IdB == <<"b", "-", "h">>

\* the top-level items documents are generated from
StructItems ==
    { It("symbol", IdA, NoStr, "path", 25, "", "", NoStr),
      It("symbol", IdB, NoStr, "path", 25, "", "", NoStr),
      It("symbol", IdA, NoStr, "path", 5, "", "", NoStr),
      It("symbol", IdA, NoStr, "path", 25, "none", "", NoStr),
      It("symbol", IdA, NoStr, "path", 25, "none", "red", NoStr),
      It("g", NoStr, NoStr, "path", 25, "", "", NoStr),
      It("g", IdA, NoStr, "path", 25, "", "", NoStr),
      It("g", NoStr, IdA, "path", 25, "", "", NoStr),
      It("defsg", NoStr, NoStr, "path", 25, "", "", NoStr),
      It("use", NoStr, NoStr, "", NoD, "", "", IdA),
      It("shape", NoStr, NoStr, "path", 25, "", "", NoStr),
      It("shape", NoStr, NoStr, "path", 25, "none", "", NoStr),
      It("shape", NoStr, NoStr, "path", 5, "", "", NoStr),
      It("shape", NoStr, NoStr, "circle", NoD, "", "", NoStr) }

RECURSIVE SeqsUpTo(_, _)
\* the sequences over S of length at most n
SeqsUpTo(S, n) ==
    IF n = 0 THEN {<<>>}
    ELSE LET shorter == SeqsUpTo(S, n - 1)
         IN  shorter \cup {Append(q, x) : q \in {r \in shorter : Len(r) = n - 1}, x \in S}

\* how the document is wrapped and what its environment gives
Profiles ==
    { [root |-> "svg",    vb |-> <<0, 0, 24, 24>>, style |-> FALSE, env |-> "missing"],
      [root |-> "svg",    vb |-> <<>>,             style |-> TRUE,  env |-> "layout"],
      [root |-> "svg",    vb |-> <<>>,             style |-> FALSE, env |-> "throws"],
      [root |-> "nested", vb |-> <<0, 0, 24, 24>>, style |-> FALSE, env |-> "zero"],
      [root |-> "other",  vb |-> <<>>,             style |-> FALSE, env |-> "missing"] }

Malformed == Doc("svg", TRUE, <<>>, FALSE, "missing", <<>>)

StructDocs ==
    { Doc(p.root, FALSE, p.vb, p.style, p.env, items) :
          p \in Profiles, items \in SeqsUpTo(StructItems, MaxItems) }

File(name, size, doc) == [name |-> name, size |-> size, doc |-> doc]

\* the files multi-file batches are drawn from
BatchDocs ==
    { Malformed,
      Doc("svg", FALSE, <<0, 0, 24, 24>>, FALSE, "layout",
          <<It("symbol", IdA, NoStr, "path", 25, "", "", NoStr)>>),
      Doc("svg", FALSE, <<>>, FALSE, "missing",
          <<It("g", NoStr, IdA, "path", 25, "", "", NoStr),
            It("g", NoStr, IdA, "path", 25, "", "", NoStr)>>),
      Doc("svg", FALSE, <<>>, FALSE, "missing",
          <<It("shape", NoStr, NoStr, "circle", NoD, "", "", NoStr)>>) }

BatchFiles ==
    { File(name, 1000, doc) : name \in {"a.svg", "a"}, doc \in BatchDocs }
    \cup { File("b.svg", 11000000, Malformed),
           File("b.svg", 6000000,
                Doc("svg", FALSE, <<>>, FALSE, "missing",
                    <<It("symbol", IdA, NoStr, "path", 25, "", "", NoStr)>>)) }

\* an icon sheet: SheetGroups top-level groups without id or class, each holding
\* one path with 25 characters of data
Sheet(p) ==
    Doc("svg", FALSE, p.vb, p.style, p.env,
        [k \in 1..SheetGroups |-> It("g", NoStr, NoStr, "path", 25, "", "", NoStr)])

SheetDocs == { Sheet(p) : p \in {q \in Profiles : q.root = "svg"} }

\* a sprite: SpriteSymbols <symbol> elements without id, each holding one path
SpriteSymbols == 101

Sprite ==
    Doc("svg", FALSE, <<0, 0, 24, 24>>, FALSE, "layout",
        [k \in 1..SpriteSymbols |-> It("symbol", NoStr, NoStr, "path", 25, "", "", NoStr)])

\* scattered drawings: GridItems anonymous groups of one path each, moved from
\* their place in the left-to-right layout by an offset
GridItems == 3

GridOffsets == { <<0, 0>>, <<0, 49>>, <<0, 50>>, <<0, -60>>, <<-100, 0>>, <<-100, 50>> }

GridDocs ==
    { Doc("svg", FALSE, <<>>, FALSE, "layout",
          [k \in 1..GridItems |->
              [It("g", NoStr, NoStr, "path", 25, "", "", NoStr)
                  EXCEPT !.x = off[k][1], !.y = off[k][2]]]) :
      off \in [1..GridItems -> GridOffsets] }

\* documents whose <defs> holds one non-visual child (a clipPath and a mask
\* hold a rect), written with the mixed-case tag names of SVG
DefsDocs ==
    { [root |-> "svg", malformed |-> FALSE, vb |-> <<0, 0, 24, 24>>, style |-> FALSE,
       env |-> env,
       nodes |-> <<Node("defs", 0, NoStr, NoStr, "", "", NoD, NoStr, NoBox),
                   Node(tag, 1, IdA, NoStr, "", "", NoD, NoStr, <<0, 0, 24, 24>>)>>
                 \o (IF tag \in {"clipPath", "mask"}
                     THEN <<Node("rect", 2, NoStr, NoStr, "", "", NoD, NoStr, <<0, 0, 24, 24>>)>>
                     ELSE <<>>)] :
      tag \in {"style", "clipPath", "mask", "filter", "linearGradient", "radialGradient"},
      env \in {"layout", "missing"} }

\* symbols whose paths differ in the length of their data, and so in the length
\* of the fragment made from them
DedupeItems == 3

DedupeData == {25, 60, 90, 130}

DedupeDocs ==
    { Doc("svg", FALSE, <<0, 0, 24, 24>>, FALSE, "layout",
          [k \in 1..DedupeItems |-> It("symbol", NoStr, NoStr, "path", ds[k], "", "", NoStr)]) :
          ds \in [1..DedupeItems -> DedupeData] }

Batches ==
    { <<File("a.svg", 1000, doc)>> :
          doc \in StructDocs \cup SheetDocs \cup {Sprite} \cup GridDocs \cup DefsDocs
                  \cup DedupeDocs }
    \cup { b \in SeqsUpTo(BatchFiles, MaxFiles) : Len(b) >= 2 }

-----------------------------------------------------------------------------
(* processFiles *)

Variants == {"IE", "P7", "ADV1", "ADV2", "SM1", "SM2", "P8", "P9"}

FileLimit == 10000000

\* the extractor the mounted component calls on the text of a file
Extract(v, file) ==
    CASE v = "IE"   -> IE_extractIconsFromSvg(file.doc, file.name, file.size)
      [] v = "P7"   -> P7_extractIconsFromSvg(file.doc, file.name, file.size)
      [] v = "ADV1" -> ADV1_extractIconsAdvanced(file.doc, file.name, file.size)
      [] v = "ADV2" -> ADV2_extractIconsAdvanced(file.doc, file.name, file.size)
      [] v = "SM1"  -> SM1_extractIconsFromSVG(file.doc, file.name, file.size)
      [] v = "SM2"  -> SM2_extractIconsFromSVG(file.doc, file.name, file.size)
      [] v = "P8"   -> P8_extractIconsFromSVG(file.doc, file.name, file.size)
      [] OTHER      -> P9_extractIconsFromSVG(file.doc, file.name, file.size)

\* extraction is a function of the mounted component and the file: the results
\* for the files of multi-file batches are computed once and looked up
RECURSIVE Listed(_)
Listed(S) == IF S = {} THEN <<>>
             ELSE LET x == CHOOSE y \in S : TRUE IN <<x>> \o Listed(S \ {x})

VariantList == Listed(Variants)
BatchFileList == Listed(BatchFiles)

Extraction ==
    [a \in 1..Len(VariantList) |->
        [b \in 1..Len(BatchFileList) |-> Extract(VariantList[a], BatchFileList[b])] \o <<>>]
    \o <<>>

ExtractOnce(v, file) ==
    IF file \in BatchFiles
    THEN Extraction[CHOOSE a \in 1..Len(VariantList) : VariantList[a] = v]
                   [CHOOSE b \in 1..Len(BatchFileList) : BatchFileList[b] = file]
    ELSE Extract(v, file)

\* the fragments of one extraction with their Date.now() part: the clock either
\* stands still during the call or ticks between any two fragments
Stamp(icons, src, t0, tick) ==
    [k \in 1..Len(icons) |->
        [icons[k] EXCEPT !.id.t = t0 + (IF tick THEN k - 1 ELSE 0), !.src = src]]

HasStats(v) == v \in {"SM1", "SM2", "P8", "P9"}
\* the extractors that write the count line themselves, inside the extraction
StatsInExtract(v) == v \in {"SM2", "P9"}
HasFileLimit(v) == v # "P7"

Stat(file, kind, n) == [file |-> file, kind |-> kind, n |-> n]

\* a variant whose attribute changes are made to the candidate element itself
RepairedInPlace(v) == "source"

\* the receiver of the setAttribute and removeAttribute calls of a synthesis:
\* element.cloneNode(true) (IconExtractor.tsx:74, part_007:111, part_008:81)
Repaired(v) == "clone"

\* the parsed tree after the fragments icons were made from it: an attribute
\* change whose receiver is the source element stays in the tree
TreeAfter(v, doc, icons) ==
    LET els == Flatten([j \in 1..Len(icons) |-> icons[j].els])
        last(m) == els[CHOOSE e \in 1..Len(els) :
                           els[e].n = m /\ \A g \in (e + 1)..Len(els) : els[g].n # m]
    IN  IF Repaired(v) = "clone" THEN doc
        ELSE [doc EXCEPT !.nodes =
                 [m \in 1..N(doc) |->
                     IF \E e \in 1..Len(els) : els[e].n = m
                     THEN [doc.nodes[m] EXCEPT !.fill = last(m).fill, !.stroke = last(m).stroke]
                     ELSE doc.nodes[m]]]

Run(idx, outcome, r, icons) ==
    [idx |-> idx, outcome |-> outcome, ran |-> r.ran, partial |-> r.partial, icons |-> icons,
     tree |-> TreeAfter(variant, files[idx].doc, r.partial)]

\* the manager before any upload: step 'upload', no files, no extracted icons
NoManager ==
    [currentStep |-> "upload", uploadedFiles |-> <<>>, extractedIcons |-> <<>>,
     loops |-> <<>>, uploads |-> 0]

Init ==
    /\ mgr = NoManager
    /\ variant \in Variants
    /\ files \in Batches
    /\ i = 1
    /\ pc = "idle"
    /\ allIcons = <<>>
    /\ extractionStats = <<>>
    /\ isProcessing = FALSE
    /\ now = 0
    /\ runs = <<>>
    /\ delivered = 0

\* the visited file is within the size limit of the loop
Readable(file) == ~(HasFileLimit(variant) /\ file.size > FileLimit)

\* useEffect on [files]: processFiles starts
Start ==
    /\ pc = "idle"
    /\ Len(files) > 0
    /\ isProcessing' = TRUE
    /\ extractionStats' = <<>>
    /\ pc' = "loop"
    /\ UNCHANGED <<variant, files, i, allIcons, now, runs, delivered, mgr>>

\* a loop that leaves processFiles at the first file that is too large
SkipLargeReturns ==
    /\ pc = "loop"
    /\ i <= Len(files)
    /\ ~Readable(files[i])
    /\ extractionStats' = IF HasStats(variant)
                          THEN Append(extractionStats, Stat(files[i].name, "toolarge", 0))
                          ELSE extractionStats
    /\ runs' = Append(runs, Run(i, "skipped", Result(<<>>, <<>>), <<>>))
    /\ pc' = "done"
    /\ UNCHANGED <<variant, files, i, allIcons, isProcessing, now, delivered, mgr>>

\* file.size > 10000000: the file is skipped with `continue`
SkipLarge ==
    /\ pc = "loop"
    /\ i <= Len(files)
    /\ ~Readable(files[i])
    /\ extractionStats' = IF HasStats(variant)
                          THEN Append(extractionStats, Stat(files[i].name, "toolarge", 0))
                          ELSE extractionStats
    /\ runs' = Append(runs, Run(i, "skipped", Result(<<>>, <<>>), <<>>))
    /\ i' = i + 1
    /\ UNCHANGED <<variant, files, pc, allIcons, isProcessing, now, delivered, mgr>>

\* a loop that puts the fragments of the file in front of the accumulated ones
ExtractedInFront(r, tick) ==
    /\ ~r.threw
    /\ allIcons' = Stamp(r.icons, i, now, tick) \o allIcons
    /\ extractionStats' =
           IF HasStats(variant)
              /\ (~StatsInExtract(variant)
                  \/ (~ParserError(files[i].doc) /\ HasSvg(files[i].doc)))
           THEN Append(extractionStats, Stat(files[i].name, "count", Len(r.icons)))
           ELSE extractionStats
    /\ runs' = Append(runs, Run(i, "ok", r, Stamp(r.icons, i, now, tick)))
    /\ now' = now + (IF tick THEN Len(r.icons) ELSE 0)
    /\ pc' = "delay"
    /\ UNCHANGED <<variant, files, i, isProcessing, delivered, mgr>>

\* extraction returned r: its fragments are appended, the count line is written
\* and the loop awaits its delay
Extracted(r, tick) ==
    /\ ~r.threw
    /\ allIcons' = allIcons \o Stamp(r.icons, i, now, tick)
    /\ extractionStats' =
           IF HasStats(variant)
              /\ (~StatsInExtract(variant)
                  \/ (~ParserError(files[i].doc) /\ HasSvg(files[i].doc)))
           THEN Append(extractionStats, Stat(files[i].name, "count", Len(r.icons)))
           ELSE extractionStats
    /\ runs' = Append(runs, Run(i, "ok", r, Stamp(r.icons, i, now, tick)))
    /\ now' = now + (IF tick THEN Len(r.icons) ELSE 0)
    /\ pc' = "delay"
    /\ UNCHANGED <<variant, files, i, isProcessing, delivered, mgr>>

\* the file is read and extracted
ExtractFile ==
    /\ pc = "loop"
    /\ i <= Len(files)
    /\ Readable(files[i])
    /\ \E tick \in BOOLEAN : Extracted(ExtractOnce(variant, files[i]), tick)

\* a loop whose try block encloses the for statement: the first file that throws
\* ends the visit of the batch
CaughtEndsLoop(r) ==
    /\ r.threw
    /\ extractionStats' = IF HasStats(variant)
                          THEN Append(extractionStats, Stat(files[i].name, "error", 0))
                          ELSE extractionStats
    /\ runs' = Append(runs, Run(i, "error", r, <<>>))
    /\ i' = Len(files) + 1
    /\ UNCHANGED <<variant, files, pc, allIcons, isProcessing, now, delivered, mgr>>

\* extraction threw (result r): the catch block of the loop records it and the
\* loop goes on with the next file
Caught(r) ==
    /\ r.threw
    /\ extractionStats' = IF HasStats(variant)
                          THEN Append(extractionStats, Stat(files[i].name, "error", 0))
                          ELSE extractionStats
    /\ runs' = Append(runs, Run(i, "error", r, <<>>))
    /\ i' = i + 1
    /\ UNCHANGED <<variant, files, pc, allIcons, isProcessing, now, delivered, mgr>>

ExtractFails ==
    /\ pc = "loop"
    /\ i <= Len(files)
    /\ Readable(files[i])
    /\ Caught(ExtractOnce(variant, files[i]))

\* await new Promise(resolve => setTimeout(resolve, ...)) resolves
Delay ==
    /\ pc = "delay"
    /\ now' = now + 1
    /\ i' = i + 1
    /\ pc' = "loop"
    /\ UNCHANGED <<variant, files, allIcons, extractionStats, isProcessing, runs,
                   delivered, mgr>>

\* after the loop: setIsProcessing(false); onIconsExtracted(allIcons)
Finish ==
    /\ pc = "loop"
    /\ i > Len(files)
    /\ isProcessing' = FALSE
    /\ delivered' = delivered + 1
    /\ pc' = "done"
    /\ UNCHANGED <<variant, files, i, allIcons, extractionStats, now, runs, mgr>>

Next == Start \/ SkipLarge \/ ExtractFile \/ ExtractFails \/ Delay \/ Finish

Spec == Init /\ [][Next]_vars

\* the event loop runs every pending continuation of processFiles: a resolved
\* file.text() or timer is eventually taken up
LiveInit ==
    /\ mgr = NoManager
    /\ variant \in Variants
    /\ files \in { b \in SeqsUpTo({f \in BatchFiles : f.name # "a"}, MaxFiles) : Len(b) >= 1 }
    /\ i = 1
    /\ pc = "idle"
    /\ allIcons = <<>>
    /\ extractionStats = <<>>
    /\ isProcessing = FALSE
    /\ now = 0
    /\ runs = <<>>
    /\ delivered = 0

LiveSpec == LiveInit /\ [][Next]_vars /\ WF_vars(Next)

-----------------------------------------------------------------------------
(* part_003: SvgIconManager mounting SmartIconExtractor *)

MaxUploads == 2

\* the files the user uploads
UploadFiles ==
    { File("a.svg", 1000,
           Doc("svg", FALSE, <<0, 0, 24, 24>>, FALSE, "layout",
               <<It("symbol", IdA, NoStr, "path", 25, "", "", NoStr)>>)),
      File("a.svg", 1000, Malformed),
      File("b.svg", 11000000, Malformed) }

UploadBatches == { b \in SeqsUpTo(UploadFiles, MaxFiles) : Len(b) >= 1 }

\* one call of processFiles: its files, its loop index, its position and its
\* allIcons
Loop(batch) == [files |-> batch, i |-> 1, pc |-> "loop", allIcons |-> <<>>]

procVars == <<files, i, pc, allIcons, extractionStats, isProcessing, now, runs, delivered>>

MgrInit ==
    /\ mgr = NoManager
    /\ variant \in {"SM1", "SM2"}
    /\ files = <<>>
    /\ i = 1
    /\ pc = "idle"
    /\ allIcons = <<>>
    /\ extractionStats = <<>>
    /\ isProcessing = FALSE
    /\ now = 0
    /\ runs = <<>>
    /\ delivered = 0

\* part_003:42-49 handleFilesUploaded, called by the FileUpload of step 'upload';
\* step 'extract' mounts a SmartIconExtractor (part_003:169-171) whose effect
\* calls processFiles (SmartIconExtractor.tsx:292-296)
HandleFilesUploaded(batch) ==
    /\ mgr.currentStep = "upload"
    /\ mgr.uploads < MaxUploads
    /\ mgr' = [mgr EXCEPT !.uploadedFiles = batch,
                          !.currentStep = "extract",
                          !.uploads = @ + 1,
                          !.loops = Append(@, Loop(batch))]
    /\ UNCHANGED <<variant, procVars>>

\* part_003:126-154: a navigation button sets the step; leaving 'extract'
\* unmounts the extractor, whose processFiles call is not cancelled
Navigate(step) ==
    /\ mgr.currentStep # step
    /\ mgr' = [mgr EXCEPT !.currentStep = step]
    /\ UNCHANGED <<variant, procVars>>

\* one iteration of the for loop of call k up to its await or its end: the file
\* is skipped when too large, its fragments are appended, or the catch block
\* takes over
LoopFile(k) ==
    LET l    == mgr.loops[k]
        file == l.files[l.i]
        r    == Extract(variant, file)
    IN  /\ l.pc = "loop"
        /\ l.i <= Len(l.files)
        /\ mgr' = [mgr EXCEPT !.loops[k] =
                      IF file.size > FileLimit \/ r.threw THEN [l EXCEPT !.i = @ + 1]
                      ELSE [l EXCEPT !.allIcons = @ \o Stamp(r.icons, l.i, 0, FALSE),
                                     !.pc = "delay"]]
        /\ UNCHANGED <<variant, procVars>>

\* the delay of call k resolves
LoopDelay(k) ==
    /\ mgr.loops[k].pc = "delay"
    /\ mgr' = [mgr EXCEPT !.loops[k].i = @ + 1, !.loops[k].pc = "loop"]
    /\ UNCHANGED <<variant, procVars>>

\* call k leaves its loop: onIconsExtracted(allIcons) is the manager's
\* handleIconsExtracted (part_003:51-58)
LoopFinish(k) ==
    /\ mgr.loops[k].pc = "loop"
    /\ mgr.loops[k].i > Len(mgr.loops[k].files)
    /\ mgr' = [mgr EXCEPT !.loops[k].pc = "done",
                          !.extractedIcons = mgr.loops[k].allIcons,
                          !.currentStep = "manage"]
    /\ UNCHANGED <<variant, procVars>>

MgrNext ==
    \/ \E batch \in UploadBatches : HandleFilesUploaded(batch)
    \/ \E step \in {"upload", "browse", "manage"} : Navigate(step)
    \/ \E k \in 1..Len(mgr.loops) : LoopFile(k)
    \/ \E k \in 1..Len(mgr.loops) : LoopDelay(k)
    \/ \E k \in 1..Len(mgr.loops) : LoopFinish(k)

MgrSpec == MgrInit /\ [][MgrNext]_vars

-----------------------------------------------------------------------------
(* part_005, lines 313-641: SvgIconManager with the icon library, and the    *)
(* useIconStorage hook it calls                                              *)

MaxPending == 2    \* icons awaiting their save when the library is opened
MaxClicks == 3     \* clicks on the save and remove buttons

\* an id made in the browser (an extraction id or an Iconify id), and an id the
\* icons table gives a row: id UUID DEFAULT gen_random_uuid()
ClientId(n) == [kind |-> "client", n |-> n]
Uuid(n) == [kind |-> "uuid", n |-> n]

UnifiedIcon(id, type) == [id |-> id, type |-> type]

\* the icons the user has extracted or selected from Iconify
PendingIcons ==
    { UnifiedIcon(ClientId(1), "extracted"),
      UnifiedIcon(ClientId(2), "iconify"),
      UnifiedIcon(ClientId(3), "iconify") }

\* a row of the icons table: its id and, for the columns saveIcon fills, the
\* icon they were taken from
IconRecord(id, of) == [id |-> id, of |-> of]

\* rows stored by an earlier session
StoredBefore == { <<>>, <<IconRecord(Uuid(1), ClientId(9))>> }

\* useIconStorage.ts:96-119: a loaded icon carries the id of its row
Loaded(table) == [k \in 1..Len(table) |-> UnifiedIcon(table[k].id, "extracted")]

RemoveAt(q, k) == [j \in 1..(Len(q) - 1) |-> IF j < k THEN q[j] ELSE q[j + 1]]

\* prev.filter(i => i.id !== id)
WithoutId(icons, id) == SelectSeq(icons, LAMBDA ic : ic.id # id)

\* the manager with its library loaded: calls are the handler calls awaiting a
\* promise, invoked the arguments of the saveIcon calls made, last the handler
\* call that returned most recently
StoreInit ==
    /\ \E pending \in { q \in SeqsUpTo(PendingIcons, MaxPending) : Len(q) >= 1 },
          table \in StoredBefore :
           mgr = [extractedIcons |-> pending,
                  savedIcons     |-> Loaded(table),
                  isLoading      |-> FALSE,
                  table          |-> table,
                  uuids          |-> Len(table),
                  calls          |-> <<>>,
                  clicks         |-> 0,
                  selected       |-> pending,
                  invoked        |-> <<>>,
                  returned       |-> 0,
                  last           |-> [op |-> "none", id |-> ClientId(0), ok |-> FALSE,
                                      failed |-> FALSE]]
    /\ variant = "SM2"
    /\ files = <<>>
    /\ i = 1
    /\ pc = "idle"
    /\ allIcons = <<>>
    /\ extractionStats = <<>>
    /\ isProcessing = FALSE
    /\ now = 0
    /\ runs = <<>>
    /\ delivered = 0

\* a handler call returned
Returns(m, k, op, id, ok, failed) ==
    [m EXCEPT !.calls = RemoveAt(@, k),
              !.returned = @ + 1,
              !.last = [op |-> op, id |-> id, ok |-> ok, failed |-> failed]]

\* useIconStorage.ts:33-34: saveIcon is called with icon
SaveIconCalled(m, icon) ==
    [m EXCEPT !.isLoading = TRUE, !.invoked = Append(@, icon.id)]

\* part_001:299-305 and part_005:423-457: the button of pending icon k, enabled
\* while isLoading is false, calls handleIconSaved, which runs to its first
\* await: the fetch for an Iconify icon, saveIcon otherwise
HandleIconSaved(k) ==
    /\ k \in 1..Len(mgr.extractedIcons)
    /\ ~mgr.isLoading
    /\ mgr.clicks < MaxClicks
    /\ LET icon == mgr.extractedIcons[k]
           m    == [mgr EXCEPT !.clicks = @ + 1]
       IN  mgr' = IF icon.type = "iconify"
                  THEN [m EXCEPT !.calls = Append(@, [op |-> "save", icon |-> icon,
                                                      at |-> "fetch"])]
                  ELSE [SaveIconCalled(m, icon)
                            EXCEPT !.calls = Append(@, [op |-> "save", icon |-> icon,
                                                        at |-> "insert"])]
    /\ UNCHANGED <<variant, procVars>>

\* part_005:428-457: the fetch of call k settles; the text of the response
\* becomes iconForStorage and saveIcon is called, or the catch block returns
FetchSettles(k, ok) ==
    /\ k \in 1..Len(mgr.calls)
    /\ mgr.calls[k].at = "fetch"
    /\ mgr' = IF ok
              THEN [SaveIconCalled(mgr, mgr.calls[k].icon)
                        EXCEPT !.calls[k].at = "insert",
                               !.calls[k].icon.type = "extracted"]
              ELSE Returns(mgr, k, "save", mgr.calls[k].icon.id, FALSE, TRUE)
    /\ UNCHANGED <<variant, procVars>>

\* a handler that adds the icon to the library whatever saveIcon returned
SaveIconReturnsUnchecked(k, ok) ==
    /\ k \in 1..Len(mgr.calls)
    /\ mgr.calls[k].at = "insert"
    /\ LET icon == mgr.calls[k].icon
           m    == [Returns(mgr, k, "save", icon.id, ok, ~ok) EXCEPT !.isLoading = FALSE]
       IN  mgr' = [m EXCEPT !.table = IF ok THEN Append(@, IconRecord(Uuid(m.uuids + 1), icon.id))
                                      ELSE @,
                            !.uuids = IF ok THEN @ + 1 ELSE @,
                            !.savedIcons = Append(@, icon),
                            !.extractedIcons = WithoutId(@, icon.id)]
    /\ UNCHANGED <<variant, procVars>>

\* useIconStorage.ts:36-75 and part_005:457-461: the insert of call k settles.
\* The row gets its id from the table's default; saveIcon clears isLoading and
\* on success the handler appends iconForStorage and filters the pending list
SaveIconReturns(k, ok) ==
    /\ k \in 1..Len(mgr.calls)
    /\ mgr.calls[k].at = "insert"
    /\ LET icon == mgr.calls[k].icon
           m    == [Returns(mgr, k, "save", icon.id, ok, ~ok) EXCEPT !.isLoading = FALSE]
       IN  mgr' = IF ok
                  THEN [m EXCEPT !.table = Append(@, IconRecord(Uuid(m.uuids + 1), icon.id)),
                                 !.uuids = @ + 1,
                                 !.savedIcons = Append(@, icon),
                                 !.extractedIcons = WithoutId(@, icon.id)]
                  ELSE m
    /\ UNCHANGED <<variant, procVars>>

\* part_001:212-216, 325-327 and part_005:464-465: the remove button of library
\* icon k, enabled while isLoading is false, calls handleIconDeleted with the
\* icon's id, which calls deleteIcon
HandleIconDeleted(k) ==
    /\ k \in 1..Len(mgr.savedIcons)
    /\ ~mgr.isLoading
    /\ mgr.clicks < MaxClicks
    /\ mgr' = [mgr EXCEPT !.clicks = @ + 1,
                          !.isLoading = TRUE,
                          !.calls = Append(@, [op |-> "delete", icon |-> mgr.savedIcons[k],
                                               at |-> "delete"])]
    /\ UNCHANGED <<variant, procVars>>

\* useIconStorage.ts:136-166 and part_005:466-468: .delete().eq('id', iconId)
\* settles.  The request fails when the storage cannot be reached (outage); for
\* an iconId that is no UUID the storage either rejects the comparison with the
\* UUID column or finds no row (lenient).  The rows whose id equals iconId are
\* removed otherwise.
DeleteIconReturns(k, outage, lenient) ==
    /\ k \in 1..Len(mgr.calls)
    /\ mgr.calls[k].at = "delete"
    /\ LET id == mgr.calls[k].icon.id
           ok == ~outage /\ (id.kind = "uuid" \/ lenient)
           m  == [Returns(mgr, k, "delete", id, ok, outage) EXCEPT !.isLoading = FALSE]
       IN  mgr' = IF ok
                  THEN [m EXCEPT !.table = SelectSeq(@, LAMBDA row : row.id # id),
                                 !.savedIcons = WithoutId(@, id)]
                  ELSE m
    /\ UNCHANGED <<variant, procVars>>

StoreNext ==
    \/ \E k \in 1..MaxPending : HandleIconSaved(k)
    \/ \E k \in 1..MaxClicks, ok \in BOOLEAN : FetchSettles(k, ok)
    \/ \E k \in 1..MaxClicks, ok \in BOOLEAN : SaveIconReturns(k, ok)
    \/ \E k \in 1..(MaxClicks + 1) : HandleIconDeleted(k)
    \/ \E k \in 1..MaxClicks, outage \in BOOLEAN, lenient \in BOOLEAN :
           DeleteIconReturns(k, outage, lenient)

StoreSpec == StoreInit /\ [][StoreNext]_vars

-----------------------------------------------------------------------------
(* Observations on a run *)

\* the fragments file k of the batch contributed to allIcons
Contribution(k) == SelectSeq(allIcons, LAMBDA f : f.src = k)

\* a fragment without its clock reading and its position in the batch
Bare(f) == [f EXCEPT !.id.t = 0, !.src = 0]
BareSeq(icons) == [k \in 1..Len(icons) |-> Bare(icons[k])]

\* what processFiles gets from a file when the batch holds that file alone
Alone(file) == IF Readable(file) THEN Extract(variant, file).icons ELSE <<>>

\* the document of the file a run visited
DocOf(run) == files[run.idx].doc

WellFormedSvg(doc) == ~doc.malformed /\ doc.root = "svg"

\* a drawing primitive with geometry: a path whose data is longer than every
\* length test of the extractors, or any other primitive
HasGeometry(doc) ==
    \E m \in 1..N(doc) :
        /\ doc.nodes[m].tag \in Primitives
        /\ doc.nodes[m].tag = "path" => doc.nodes[m].d > 20

\* the primitive el of a fragment is left invisible
Invisible(el) ==
    \/ el.fill = "none" /\ el.stroke = ""
    \/ el.fill = "" /\ el.stroke = "" /\ ~el.supF /\ ~el.supS

-----------------------------------------------------------------------------
(* Properties *)

\* C1: every well-formed file within the size limits whose <svg> root holds a
\* drawing primitive with geometry contributes at least one fragment
\* (IconExtractor.tsx, AdvancedIconExtractor.tsx, part_009).
C1_FallbackGuarantee ==
    \A k \in 1..Len(runs) :
        ( /\ variant \in {"IE", "ADV1", "P9"}
          /\ WellFormedSvg(DocOf(runs[k]))
          /\ files[runs[k].idx].size <= 5000000
          /\ HasGeometry(DocOf(runs[k])) )
        => runs[k].icons # <<>>

\* C2: within the extraction of one file no source element is the origin of two
\* returned fragments (SmartIconExtractor.tsx, part_007, AdvancedIconExtractor.tsx).
C2_OneFragmentPerElement ==
    \A k \in 1..Len(runs) :
        variant \in {"SM2", "P7", "ADV1"} =>
            \A a, b \in 1..Len(runs[k].icons) :
                a # b => runs[k].icons[a].origin # runs[k].icons[b].origin

\* C3: when processFiles has finished, every file of the batch was visited and
\* onIconsExtracted was called once (nothing was thrown out of the loop), each
\* malformed file contributed no fragment, and every other file contributed
\* exactly the fragments it yields when it is the only file of the batch,
\* wherever the malformed files stand.
C3_MalformedFileIsolated ==
    pc = "done" =>
        /\ Len(runs) = Len(files)
        /\ delivered = 1
        /\ \A k \in 1..Len(files) :
               /\ files[k].doc.malformed => Contribution(k) = <<>>
               /\ BareSeq(Contribution(k)) = Alone(files[k])

\* a finished batch that starts with a malformed file, followed by a file that
\* contributed fragments
C3_Witness ==
    /\ pc = "done"
    /\ Len(files) >= 2
    /\ files[1].doc.malformed
    /\ Contribution(2) # <<>>

\* C4: every returned fragment has an <svg> root that carries a viewBox
\* attribute, the whole-document fallback included.
C4_RootHasViewBox ==
    \A k \in 1..Len(allIcons) :
        allIcons[k].rootTag = "svg" /\ allIcons[k].viewBox

\* C5: in every returned fragment every drawing primitive, the candidate itself
\* included, is left visible: not fill="none" without a stroke, and not without
\* fill and stroke where nothing inside the fragment supplies one.
C5_PrimitivesVisible ==
    \A k \in 1..Len(allIcons) :
        \A e \in 1..Len(allIcons[k].els) :
            allIcons[k].els[e].tag \in Primitives => ~Invisible(allIcons[k].els[e])

\* C6: the visibility pass keeps an explicit fill="none": a primitive that had
\* fill="none" and no stroke gets a stroke and keeps its fill; one that had
\* fill="none" and a stroke keeps both (IconExtractor.tsx, part_008).
C6_FillNoneKept ==
    \A k \in 1..Len(allIcons) :
        \A e \in 1..Len(allIcons[k].els) :
            LET el  == allIcons[k].els[e]
                src == files[allIcons[k].src].doc.nodes[el.n]
            IN  ( /\ variant \in {"IE", "P8"}
                  /\ el.n # allIcons[k].origin
                  /\ el.tag \in Primitives \ {"polyline"}
                  /\ src.fill = "none" )
                => /\ el.fill = "none"
                   /\ src.stroke = "" => el.stroke # ""
                   /\ src.stroke # "" => el.stroke = src.stroke

\* C7: the fragments of one batch run have pairwise distinct ids.
C7_IdsDistinct ==
    \A a, b \in 1..Len(allIcons) : a # b => allIcons[a].id # allIcons[b].id

\* C8: a failure inside one strategy of a file never discards the fragments the
\* earlier strategies of that file produced: what a visited file contributes is
\* everything its extraction had collected.
C8_EarlierFragmentsKept ==
    \A k \in 1..Len(runs) : BareSeq(runs[k].icons) = runs[k].partial

\* C9: a document with a parser-error marker, or whose root is not an <svg>
\* element, yields no fragment and no strategy is applied to it.
C9_RejectedBeforeDiscovery ==
    \A k \in 1..Len(runs) :
        (runs[k].outcome # "skipped" /\ ~WellFormedSvg(DocOf(runs[k])))
        => runs[k].icons = <<>> /\ runs[k].ran = <<>>

\* the document holds N >= 1 symbols with a valid path and pairwise distinct ids,
\* and nothing else
OnlyValidSymbols(doc) ==
    LET symbols == QSA(doc, 0, {"symbol"})
    IN  /\ WellFormedSvg(doc)
        /\ symbols # <<>>
        /\ \A m \in 1..N(doc) :
               \/ doc.nodes[m].tag = "symbol" /\ doc.nodes[m].parent = 0
                                              /\ doc.nodes[m].id # NoStr
               \/ doc.nodes[m].tag = "path" /\ doc.nodes[m].parent # 0
                                            /\ doc.nodes[m].d > 20
        /\ \A a, b \in 1..Len(symbols) :
               /\ a # b => doc.nodes[symbols[a]].id # doc.nodes[symbols[b]].id
               /\ Children(doc, symbols[a]) # <<>>

\* C10: a document whose only icon containers are N valid symbols with distinct
\* ids yields exactly N fragments, one per symbol in document order, each from
\* the symbol strategy and named by its humanized id
\* (SmartIconExtractor.tsx, part_009).
C10_OneFragmentPerSymbol ==
    \A k \in 1..Len(runs) :
        (variant \in {"SM2", "P9"} /\ OnlyValidSymbols(DocOf(runs[k]))) =>
            LET symbols == QSA(DocOf(runs[k]), 0, {"symbol"})
            IN  /\ Len(runs[k].icons) = Len(symbols)
                /\ \A j \in 1..Len(symbols) :
                       /\ runs[k].icons[j].origin = symbols[j]
                       /\ runs[k].icons[j].strategy = "symbol"
                       /\ runs[k].icons[j].name
                              = NameOf("text", Humanize(DocOf(runs[k]).nodes[symbols[j]].id), 0)

\* the document is an icon sheet: no symbol, SheetGroups top-level groups without
\* id or class, each holding one path with meaningful data, and nothing else
GroupSheet(doc) ==
    LET groups == QSA(doc, 0, {"g"})
    IN  /\ WellFormedSvg(doc)
        /\ Len(groups) = SheetGroups
        /\ \A m \in 1..N(doc) :
               \/ /\ doc.nodes[m].tag = "g" /\ doc.nodes[m].parent = 0
                  /\ doc.nodes[m].id = NoStr /\ doc.nodes[m].cls = NoStr
                  /\ Len(Children(doc, m)) = 1
               \/ /\ doc.nodes[m].tag = "path" /\ doc.nodes[m].parent # 0
                  /\ doc.nodes[m].d > 20

\* C11: an icon sheet of 20 anonymous top-level groups yields exactly 20
\* fragments, one per group in document order, each from the generic-group
\* strategy and named "Icon 1" to "Icon 20", and grid clustering is not invoked
\* (SmartIconExtractor.tsx, part_008).
C11_SheetOfGroups ==
    \A k \in 1..Len(runs) :
        (variant \in {"SM2", "P8"} /\ GroupSheet(DocOf(runs[k]))) =>
            LET groups == QSA(DocOf(runs[k]), 0, {"g"})
            IN  /\ Len(runs[k].icons) = Len(groups)
                /\ "grid" \notin Range(runs[k].ran)
                /\ \A j \in 1..Len(groups) :
                       /\ runs[k].icons[j].origin = groups[j]
                       /\ runs[k].icons[j].strategy = "group"
                       /\ runs[k].icons[j].name = NameOf("Icon n", NoStr, j)

\* C12: after a batch completes, extractionStats holds exactly one line per
\* file, in file order; the line of a file that failed to parse reports an error
\* with zero icons (a file without an <svg> element counts as one), the line of
\* every other file read reports the number of fragments the file contributed
\* (SmartIconExtractor.tsx, both components).
C12_OneStatsLinePerFile ==
    (pc = "done" /\ variant \in {"SM1", "SM2"}) =>
        /\ Len(extractionStats) = Len(files)
        /\ \A k \in 1..Len(files) :
               LET parsed == ~ParserError(files[k].doc) /\ HasSvg(files[k].doc)
               IN  /\ extractionStats[k].file = files[k].name
                   /\ (Readable(files[k]) /\ ~parsed) =>
                          extractionStats[k].kind = "error" /\ extractionStats[k].n = 0
                   /\ (Readable(files[k]) /\ parsed) =>
                          /\ extractionStats[k].kind = "count"
                          /\ extractionStats[k].n = Len(Contribution(k))

\* C13: a fragment of a document that declares no viewBox, built where no
\* bounding box can be computed (getBBox is missing or throws), has the
\* dimensions 24 x 24, whatever strategy produced it (IconExtractor.tsx,
\* AdvancedIconExtractor.tsx lines 1-386).
C13_DefaultDimensions ==
    \A k \in 1..Len(runs) :
        ( /\ variant \in {"IE", "ADV1"}
          /\ DocOf(runs[k]).vb = <<>>
          /\ BBoxOutcome(DocOf(runs[k])) # "box" ) =>
            \A j \in 1..Len(runs[k].icons) : runs[k].icons[j].dims = <<24, 24>>

C15_SequentialInOrder ==
    /\ \A k \in 1..Len(runs) : runs[k].idx = k
    /\ Len(runs) \in {i - 1, i}
    /\ Len(runs) = i => pc = "delay"
    /\ allIcons = Flatten([k \in 1..Len(runs) |-> runs[k].icons])
    /\ pc = "done" =>
           /\ Len(runs) = Len(files)
           /\ allIcons = Flatten([k \in 1..Len(files) |-> Contribution(k)])

\* a finished batch of two files that both contributed fragments
C15_Witness ==
    /\ pc = "done"
    /\ Len(files) >= 2
    /\ runs[1].icons # <<>>
    /\ runs[2].icons # <<>>
    /\ allIcons = runs[1].icons \o runs[2].icons

\* C16: whatever the user does (upload, navigation while extraction runs,
\* upload again), at most one processFiles loop is in progress at any time.
C16_OneLoopAtATime ==
    Cardinality({k \in 1..Len(mgr.loops) : mgr.loops[k].pc # "done"}) <= 1

\* C17: every file contributes at most the per-file ceiling of fragments to the
\* batch output; the largest ceiling the extractors declare is 100
\* (IconExtractor.tsx, part_007, part_008).
C17_PerFileCeiling ==
    \A k \in 1..Len(runs) :
        variant \in {"IE", "P7", "P8"} => Len(runs[k].icons) <= IE_MaxIcons

\* C18: all fragments returned for one file were produced by one single
\* discovery strategy (IconExtractor.tsx, AdvancedIconExtractor.tsx lines 1-386,
\* SmartIconExtractor.tsx lines 273-604).
C18_SingleStrategy ==
    \A k \in 1..Len(runs) :
        variant \in {"IE", "ADV1", "SM2"} =>
            \A a, b \in 1..Len(runs[k].icons) :
                runs[k].icons[a].strategy = runs[k].icons[b].strategy

\* C19: whenever the source document contains a <style> block, every fragment
\* produced from it carries that style content (AdvancedIconExtractor.tsx lines
\* 1-386, SmartIconExtractor.tsx lines 273-604, part_009).
C19_StyleInlined ==
    \A k \in 1..Len(runs) :
        (variant \in {"ADV1", "SM2", "P9"} /\ DocOf(runs[k]).style) =>
            \A j \in 1..Len(runs[k].icons) : runs[k].icons[j].style

\* the strategies that find candidates by document structure
Structural == {"symbol", "def", "named", "use", "group", "shape", "direct", "path"}

\* C20: grid clustering runs for a file only after all structural strategies
\* have had their turn, and only when they yielded fewer fragments than the
\* escalation threshold of the extractor: no structural strategy runs after the
\* grid (AdvancedIconExtractor.tsx, both components; part_008).
C20_GridAfterStructural ==
    \A k \in 1..Len(runs) :
        variant \in {"ADV1", "ADV2", "P8"} =>
            \A g \in 1..Len(runs[k].ran) :
                runs[k].ran[g] = "grid" =>
                    /\ \A b \in (g + 1)..Len(runs[k].ran) : runs[k].ran[b] \notin Structural
                    /\ Len(SelectSeq(runs[k].partial, LAMBDA f : f.strategy \in Structural))
                           < (CASE variant = "ADV1" -> ADV1_FewIcons
                                [] variant = "ADV2" -> ADV2_FewIcons
                                [] OTHER            -> P8_EnoughIcons)

\* the grid cells of a run, and the position the clustering used for the
\* element of a cell
GridCellsOf(run) == SelectSeq(run.partial, LAMBDA f : f.strategy = "grid")
CellX(run, f) == IF BBoxOutcome(DocOf(run)) = "box" THEN BBox(DocOf(run), f.origin)[1] ELSE 0
CellY(run, f) == IF BBoxOutcome(DocOf(run)) = "box" THEN BBox(DocOf(run), f.origin)[2] ELSE 0

\* y lies in bucket q of width t: q - 1/2 <= y / t < q + 1/2
InBucket(y, q, t) == 2 * q * t - t <= 2 * y /\ 2 * y < 2 * q * t + t

\* C21: in grid clustering every positioned element is placed in exactly one
\* row, two elements share a row exactly when their y-coordinates round to the
\* same bucket round(y / tolerance), and the cells of one row are emitted in
\* non-decreasing order of x (AdvancedIconExtractor.tsx detectGridPattern).
C21_GridRows ==
    \A k \in 1..Len(runs) :
        variant \in {"ADV1", "ADV2"} =>
            LET cells == GridCellsOf(runs[k])
                t == IF variant = "ADV1" THEN ADV1_GridTolerance ELSE ADV2_GridTolerance
            IN  \A a, b \in 1..Len(cells) :
                    /\ (a # b /\ cells[a].origin = cells[b].origin) => FALSE
                    /\ (cells[a].id.n = cells[b].id.n)
                           <=> (\E q \in -5..5 : /\ InBucket(CellY(runs[k], cells[a]), q, t)
                                                 /\ InBucket(CellY(runs[k], cells[b]), q, t))
                    /\ (cells[a].id.n = cells[b].id.n /\ cells[a].id.m < cells[b].id.m)
                           => CellX(runs[k], cells[a]) <= CellX(runs[k], cells[b])

\* a clustering of three elements into two rows, in which the sort moved an
\* element in front of one that precedes it in document order
C21_Witness ==
    \E k \in 1..Len(runs) :
        LET cells == GridCellsOf(runs[k])
        IN  /\ variant = "ADV1"
            /\ Len(cells) = 3
            /\ \E a, b \in 1..3 :
                   /\ cells[a].id.n = cells[b].id.n
                   /\ cells[a].id.m < cells[b].id.m
                   /\ cells[a].origin > cells[b].origin
            /\ \E a, b \in 1..3 : cells[a].id.n # cells[b].id.n

\* C22: grid clustering emits no cell for an element whose bounding box cannot
\* be computed (getBBox missing or throwing) or is empty; no such element is
\* given a default box (AdvancedIconExtractor.tsx, both components; part_009).
C22_NoCellWithoutBox ==
    \A k \in 1..Len(runs) :
        variant \in {"ADV1", "ADV2", "P9"} =>
            \A j \in 1..Len(GridCellsOf(runs[k])) :
                /\ BBoxOutcome(DocOf(runs[k])) = "box"
                /\ BBox(DocOf(runs[k]), GridCellsOf(runs[k])[j].origin)[3] > 0
                /\ BBox(DocOf(runs[k]), GridCellsOf(runs[k])[j].origin)[4] > 0

\* C23: definition extraction never emits a fragment for a non-visual child of
\* <defs>: a style, clipPath, mask, filter, linearGradient or radialGradient
\* element, as the document writes the tag (part_007).
C23_NoNonVisualDefs ==
    \A k \in 1..Len(runs) :
        variant = "P7" =>
            \A j \in 1..Len(runs[k].icons) :
                ~ /\ runs[k].icons[j].strategy = "def"
                  /\ DocOf(runs[k]).nodes[runs[k].icons[j].origin].tag
                         \in {"style", "clipPath", "mask", "filter", "linearGradient",
                              "radialGradient"}

\* C24: every fragment of the use-reference strategy contains the definition
\* its <use> points to: a <use> inside the fragment has its target inside the
\* fragment, so a <use> without an existing target gives no fragment
\* (AdvancedIconExtractor.tsx lines 1-386, part_007).
C24_UseResolved ==
    \A k \in 1..Len(runs) :
        variant \in {"ADV1", "P7"} =>
            \A j \in 1..Len(runs[k].icons) :
                runs[k].icons[j].strategy = "use" =>
                    \A e \in 1..Len(runs[k].icons[j].els) :
                        runs[k].icons[j].els[e].tag = "use" =>
                            \E t \in 1..Len(runs[k].icons[j].els) :
                                runs[k].icons[j].els[t].n
                                    = GetElementById(DocOf(runs[k]),
                                          DocOf(runs[k]).nodes[runs[k].icons[j].els[e].n].href)

\* C25: the validity filter is applied by every strategy: each fragment other
\* than the whole-document fallback holds at least one drawing primitive, and a
\* symbol is accepted when any of its paths has 10 or more characters of data
\* (IconExtractor.tsx, AdvancedIconExtractor.tsx lines 1-386).
C25_ValidityEverywhere ==
    \A k \in 1..Len(runs) :
        variant \in {"IE", "ADV1"} =>
            /\ \A j \in 1..Len(runs[k].icons) :
                   runs[k].icons[j].strategy # "full" =>
                       \E e \in 1..Len(runs[k].icons[j].els) :
                           runs[k].icons[j].els[e].tag \in Primitives
            /\ (variant = "ADV1" /\ runs[k].outcome = "ok" /\ "symbol" \in Range(runs[k].ran)) =>
                   \A n \in Range(Slice(QSA(DocOf(runs[k]), 0, {"symbol"}), ADV1_PerStrategy)) :
                       (\E q \in Range(QSA(DocOf(runs[k]), n, {"path"})) :
                            DocOf(runs[k]).nodes[q].d >= 10) =>
                           \E j \in 1..Len(runs[k].partial) : runs[k].partial[j].origin = n

\* C26: processFiles terminates for every list of files and calls
\* onIconsExtracted exactly once, after every file has been visited exactly once,
\* also when files are skipped as too large or fail with an exception;
\* isProcessing is false when the callback is made.
C26_TerminatesAndDeliversOnce ==
    /\ <>(pc = "done")
    /\ [](delivered <= 1)
    /\ [](pc = "done" =>
            /\ delivered = 1
            /\ ~isProcessing
            /\ Len(runs) = Len(files)
            /\ \A k \in 1..Len(runs) : runs[k].idx = k)
    /\ [](delivered = 1 => pc = "done")

\* a finished batch in which one file was skipped as too large and another
\* failed with an exception
C26_Witness ==
    /\ pc = "done"
    /\ delivered = 1
    /\ \E k \in 1..Len(runs) : runs[k].outcome = "skipped"
    /\ \E k \in 1..Len(runs) : runs[k].outcome = "error"

\* the position of fragment f in the icons array all
PlaceIn(all, f) == CHOOSE p \in 1..Len(all) : all[p] = f

\* C27: the fragments SmartIconExtractor.extractIconsFromSVG keeps for a file
\* after its filter on svgContent length differ pairwise in length by at least
\* 50, the first fragment collected is kept, and the kept ones are in the order
\* they were collected in
C27_DedupeByLength ==
    variant = "SM2" =>
        \A k \in 1..Len(runs) :
            runs[k].outcome = "ok" /\ ~ParserError(DocOf(runs[k])) /\ HasSvg(DocOf(runs[k])) =>
                LET all  == SM2_Collected(DocOf(runs[k]), files[runs[k].idx].name).icons
                    kept == runs[k].partial
                IN  /\ \A a, b \in 1..Len(kept) :
                           a < b => Abs(kept[a].len - kept[b].len) >= 50
                    /\ all # <<>> => kept # <<>> /\ kept[1] = all[1]
                    /\ \A a \in 1..Len(kept) : \E p \in 1..Len(all) : all[p] = kept[a]
                    /\ \A a, b \in 1..Len(kept) :
                           a < b => PlaceIn(all, kept[a]) < PlaceIn(all, kept[b])

\* three fragments were collected, the second differs from the first by 50 or
\* more and is kept, the third is within 50 of the first and is dropped
C27_Witness ==
    /\ variant = "SM2"
    /\ \E k \in 1..Len(runs) :
           /\ runs[k].outcome = "ok"
           /\ ~ParserError(DocOf(runs[k])) /\ HasSvg(DocOf(runs[k]))
           /\ LET all == SM2_Collected(DocOf(runs[k]), files[runs[k].idx].name).icons
              IN  /\ Len(all) = 3
                  /\ Len(runs[k].partial) = 2
                  /\ runs[k].partial = <<all[1], all[2]>>
                  /\ Abs(all[3].len - all[1].len) < 50
                  /\ Abs(all[3].len - all[2].len) >= 50

\* C28: handleIconSaved changes the lists of the manager only on success: when
\* a call returns after saveIcon gave true, the pending icons with the saved id
\* are gone from extractedIcons, the others stay, and savedIcons has one more
\* entry at its end; when the fetch failed or saveIcon gave false, both lists
\* are as they were
C28_ListsChangeOnSuccessOnly ==
    [][(mgr'.returned # mgr.returned /\ mgr'.last.op = "save") =>
          IF mgr'.last.ok
          THEN /\ mgr'.extractedIcons = WithoutId(mgr.extractedIcons, mgr'.last.id)
               /\ Len(mgr'.savedIcons) = Len(mgr.savedIcons) + 1
               /\ SubSeq(mgr'.savedIcons, 1, Len(mgr.savedIcons)) = mgr.savedIcons
               /\ mgr'.savedIcons[Len(mgr'.savedIcons)].id = mgr'.last.id
          ELSE /\ mgr'.extractedIcons = mgr.extractedIcons
               /\ mgr'.savedIcons = mgr.savedIcons]_vars

\* saveIcon was called twice, and the save that returned last succeeded and
\* took two pending icons of one id out of extractedIcons
C28_Witness ==
    /\ mgr.last.op = "save"
    /\ mgr.last.ok
    /\ Len(mgr.selected) = 2
    /\ mgr.selected[1].id = mgr.selected[2].id
    /\ mgr.extractedIcons = <<>>
    /\ Len(mgr.invoked) = 2
    /\ \E k \in 1..Len(mgr.savedIcons) : mgr.savedIcons[k].id = mgr.last.id

\* an icon saved in this session, and the row saveIcon inserted for it
FreshlySaved(id) ==
    /\ id.kind = "client"
    /\ \E k \in 1..Len(mgr.invoked) : mgr.invoked[k] = id

\* C29: when handleIconDeleted has returned for the id savedIcons holds for an
\* icon saved in this session, and the storage answered, the row inserted for
\* that icon is gone from the table and the icon from savedIcons
C29_FreshIconDeletable ==
    (mgr.last.op = "delete" /\ FreshlySaved(mgr.last.id) /\ ~mgr.last.failed) =>
        /\ \A k \in 1..Len(mgr.table) : mgr.table[k].of # mgr.last.id
        /\ \A k \in 1..Len(mgr.savedIcons) : mgr.savedIcons[k].id # mgr.last.id

\* C30: where the pending icons have ids of their own, no two saveIcon calls
\* for one icon are under way together, and neither savedIcons nor the table
\* holds an icon twice
C30_StoredAtMostOnce ==
    (\A a, b \in 1..Len(mgr.selected) : a # b => mgr.selected[a].id # mgr.selected[b].id) =>
        /\ \A a, b \in 1..Len(mgr.calls) :
               (a # b /\ mgr.calls[a].at = "insert" /\ mgr.calls[b].at = "insert")
                   => mgr.calls[a].icon.id # mgr.calls[b].icon.id
        /\ \A a, b \in 1..Len(mgr.savedIcons) :
               a # b => mgr.savedIcons[a].id # mgr.savedIcons[b].id
        /\ \A a, b \in 1..Len(mgr.table) : a # b => mgr.table[a].of # mgr.table[b].of

====
